---------------------------- MODULE Spec2Model ----------------------------
(***************************************************************************)
(* Forecast engine of solartrack-pro (src/unnamed/part_006): the pure      *)
(* functions calculateForecast, getPercentComplete and getProductionStats  *)
(* over a Project, a list of ProductionEntry records and the clock reading *)
(* `today`; the dashboard's getScheduleHealth (src/src/app/page.tsx and    *)
(* its copy in src/unnamed/part_004); the route handlers that write the    *)
(* ProductionEntry and QCInspection tables and the Project and User tables *)
(* they reference (POST /api/sync, POST and DELETE /api/production, POST   *)
(* /api/inspections, POST and DELETE /api/projects, POST and DELETE        *)
(* /api/users); and the offline queue of the client store                  *)
(* (src/src/store/useAppStore.ts).                                         *)
(*                                                                         *)
(* Conventions of the model                                                *)
(*  - A Date is its getTime() value in whole seconds since                *)
(*    1970-01-01T00:00:00Z (getTime() / 1000): every instant of the model  *)
(*    is a whole second, which keeps dates up to 2038 and the dates        *)
(*    projected from them within 32-bit integers.  The code's divisor      *)
(*    1000 * 60 * 60 * 24 (milliseconds) is SecondsPerDay here.            *)
(*  - The process runs in UTC (no daylight-saving shifts), so              *)
(*    Date.setDate(getDate() + n) adds exactly n days of 86,400 s and the  *)
(*    local calendar fields of a Date are its UTC fields.                  *)
(*  - toISOString().split('T')[0] is the UTC calendar date, modelled as    *)
(*    the triple <<year, month, day>> of the proleptic Gregorian calendar. *)
(*  - A JavaScript number that need not be an integer (a percentage, an    *)
(*    average) is written as the exact rational [num, den] in lowest       *)
(*    terms, den > 0, that the code's double approximates.  Where the code *)
(*    turns such a number into an integer or a colour (Math.ceil,          *)
(*    Math.round, a comparison with a threshold) the result is that of the *)
(*    IEEE-754 double arithmetic of the code: the exact value decides      *)
(*    unless it lies exactly on the boundary of the rounding or on the     *)
(*    threshold, and there the double is computed, operation by operation, *)
(*    with round-to-nearest-even (see "IEEE-754 double arithmetic").  So   *)
(*    Math.ceil(17 / (17 / 7)) is 8, since 17 / 2.4285714285714284 is      *)
(*    7.000000000000001, and the weighted percentage 27.75 of the exact    *)
(*    arithmetic is the double 27.749999999999996, reported as 27.7.       *)
(*  - The values of a double that no rational is are written with den = 0: *)
(*    NaN is [0, 0] and -Infinity is [-1, 0].  Zero has a sign in the      *)
(*    code: Math.ceil of a number between -1 and 0 is -0, and a positive   *)
(*    number divided by -0 is -Infinity.                                   *)
(*  - A JavaScript array a of length n is the sequence s of length n with  *)
(*    s[k + 1] = a[k].                                                     *)
(***************************************************************************)
EXTENDS Integers, Sequences, FiniteSets, TLC

VARIABLES project, productionEntries, today, returned

\* The database (src/unnamed/part_000): the rows of ProductionEntry and of
\* QCInspection and the number of ids that create() has generated for them;
\* the ids of the rows of Project and of User and the number of ids that
\* create() has generated for projects; and the POST requests of the sync
\* endpoint (src/src/app/api/sync/route.ts) in flight.
VARIABLES productionEntryTable, qCInspectionTable, idsIssued,
          projectTable, userTable, projectIdsIssued, requests

\* The client store (src/src/store/useAppStore.ts).
VARIABLES offlineQueue, pendingSyncCount

\* The tables that ProductionEntry and QCInspection reference.
parents == <<projectTable, userTable, projectIdsIssued>>

tables == <<productionEntryTable, qCInspectionTable, idsIssued, parents>>

serverVars == <<tables, requests>>

storeVars == <<offlineQueue, pendingSyncCount>>

vars == <<project, productionEntries, today, returned,
          productionEntryTable, qCInspectionTable, idsIssued,
          projectTable, userTable, projectIdsIssued,
          requests, offlineQueue, pendingSyncCount>>

-----------------------------------------------------------------------------
(* Arithmetic helpers *)

Max(a, b) == IF a >= b THEN a ELSE b

Min(a, b) == IF a <= b THEN a ELSE b

\* Math.ceil(a / b) for integers a and b > 0 (a may be negative; Math.ceil
\* of a value in (-1, 0] is -0, which compares as 0).
Ceil(a, b) == -((-a) \div b)

RECURSIVE GCD(_, _)
GCD(a, b) == IF b = 0 THEN a ELSE GCD(b, a % b)

\* The rational n / d (d > 0) in lowest terms.
Rat(n, d) ==
    IF d = 0
    THEN [num |-> n, den |-> 0]
    ELSE LET g == GCD(n, d) IN [num |-> n \div g, den |-> d \div g]

RatLeq(x, y) == x.num * y.den <= y.num * x.den

\* A variant of RatMin that keeps its second argument whatever the first.
RatMin_uncapped(x, y) == y

RatMin(x, y) == IF RatLeq(x, y) THEN x ELSE y

-----------------------------------------------------------------------------
(* IEEE-754 double arithmetic, carried out where the code rounds a number  *)
(* or compares it with a threshold.                                        *)
(*                                                                         *)
(* A natural number of any size is the sequence of its digits to the base  *)
(* 2^13, lowest first and without leading zeros (0 is the empty            *)
(* sequence): the sum of five products of two digits stays below 2^31.     *)
(* A double x is [neg, m, e] with |x| = m * 2^e and 2^52 <= m < 2^53, or   *)
(* m = 0, and neg telling whether x < 0 (the sign of a zero is not kept:   *)
(* no double of the model is a divisor).  Operations round to nearest,     *)
(* ties to even.                                                           *)

LimbBits == 13

Limb == 2 ^ LimbBits

RECURSIVE Trim(_)
Trim(a) ==
    IF a # <<>> /\ a[Len(a)] = 0 THEN Trim(SubSeq(a, 1, Len(a) - 1)) ELSE a

\* The digits of the number whose k-th digit column holds cols[k], plus c.
RECURSIVE Carry(_, _)
Carry(cols, c) ==
    IF cols = <<>>
    THEN IF c = 0 THEN <<>> ELSE <<c % Limb>> \o Carry(<<>>, c \div Limb)
    ELSE <<(cols[1] + c) % Limb>> \o Carry(Tail(cols), (cols[1] + c) \div Limb)

Big(n) == Trim(Carry(<<n>>, 0))

Digit(a, i) == IF i \in DOMAIN a THEN a[i] ELSE 0

BigAdd(a, b) ==
    IF a = <<>> THEN b
    ELSE IF b = <<>> THEN a
    ELSE Trim(Carry([i \in 1..Max(Len(a), Len(b)) |-> Digit(a, i) + Digit(b, i)], 0))

\* a - b for a >= b
BigSub(a, b) == Trim(Carry([i \in DOMAIN a |-> a[i] - Digit(b, i)], 0))

RECURSIVE ColumnSum(_, _, _, _)
ColumnSum(a, b, k, i) ==
    IF i > Len(a) THEN 0
    ELSE (IF k + 1 - i \in DOMAIN b THEN a[i] * b[k + 1 - i] ELSE 0)
         + ColumnSum(a, b, k, i + 1)

BigMul(a, b) ==
    IF a = <<>> \/ b = <<>> THEN <<>>
    ELSE Trim(Carry([k \in 1..(Len(a) + Len(b) - 1) |-> ColumnSum(a, b, k, 1)], 0))

RECURSIVE LeqFrom(_, _, _)
LeqFrom(a, b, i) ==
    IF i = 0 THEN TRUE
    ELSE IF a[i] # b[i] THEN a[i] < b[i]
    ELSE LeqFrom(a, b, i - 1)

BigLeq(a, b) ==
    IF Len(a) # Len(b) THEN Len(a) < Len(b) ELSE LeqFrom(a, b, Len(a))

RECURSIVE BitsOf(_)
BitsOf(n) == IF n = 0 THEN 0 ELSE 1 + BitsOf(n \div 2)

BitLength(a) ==
    IF a = <<>> THEN 0 ELSE LimbBits * (Len(a) - 1) + BitsOf(a[Len(a)])

\* a * 2^k
ShiftLeft(a, k) ==
    IF a = <<>> THEN <<>>
    ELSE [i \in 1..(k \div LimbBits) |-> 0]
         \o Carry([i \in DOMAIN a |-> a[i] * 2 ^ (k % LimbBits)], 0)

\* floor(a / 2^k)
ShiftRight(a, k) ==
    LET d == k \div LimbBits
        b == k % LimbBits
    IN  IF Len(a) <= d THEN <<>>
        ELSE Trim([i \in 1..(Len(a) - d) |->
                      Digit(a, i + d) \div 2 ^ b
                      + (Digit(a, i + d + 1) % 2 ^ b) * 2 ^ (LimbBits - b)])

\* Bit i of a, bit 0 being the lowest.
Bit(a, i) == (Digit(a, i \div LimbBits + 1) \div 2 ^ (i % LimbBits)) % 2

\* The bits of a below bit i are all 0.
LowBitsZero(a, i) ==
    /\ \A j \in 1..(i \div LimbBits) : Digit(a, j) = 0
    /\ Digit(a, i \div LimbBits + 1) % 2 ^ (i % LimbBits) = 0

RECURSIVE ToInteger(_)
ToInteger(a) == IF a = <<>> THEN 0 ELSE a[1] + Limb * ToInteger(Tail(a))

\* floor(a / d) and a mod d for a small divisor (0 < d < 2^18).
RECURSIVE DivideFrom(_, _, _, _)
DivideFrom(a, d, i, r) ==
    IF i = 0 THEN [q |-> <<>>, r |-> r]
    ELSE LET t == r * Limb + a[i]
             rest == DivideFrom(a, d, i - 1, t % d)
         IN  [q |-> Append(rest.q, t \div d), r |-> rest.r]

DoubleZero == [neg |-> FALSE, m |-> <<>>, e |-> 0]

\* The double nearest to n * 2^e, ties to the even mantissa.
RoundToDouble(n, e) ==
    LET length == BitLength(n)
        s == length - 53
        q == ShiftRight(n, s)
        up == /\ Bit(n, s - 1) = 1
              /\ ~LowBitsZero(n, s - 1) \/ Bit(q, 0) = 1
        q1 == BigAdd(q, <<1>>)
    IN  IF length = 0 THEN DoubleZero
        ELSE IF length <= 53
        THEN [neg |-> FALSE, m |-> ShiftLeft(n, 53 - length), e |-> e - (53 - length)]
        ELSE IF ~up THEN [neg |-> FALSE, m |-> q, e |-> e + s]
        ELSE IF BitLength(q1) = 54
        THEN [neg |-> FALSE, m |-> ShiftRight(q1, 1), e |-> e + s + 1]
        ELSE [neg |-> FALSE, m |-> q1, e |-> e + s]

\* x or -x: the double of the magnitude of x that is negative when `neg`.
Signed(neg, x) == [neg |-> neg /\ x.m # <<>>, m |-> x.m, e |-> x.e]

\* |x| <= |y|
MagnitudeAtMost(x, y) ==
    LET e == Min(x.e, y.e)
    IN  BigLeq(ShiftLeft(x.m, x.e - e), ShiftLeft(y.m, y.e - e))

\* The double n / d of two integers, 0 < |d| < 2^18 (also the double of the
\* decimal literal n / d): 79 bits of the quotient of the magnitudes, the
\* lowest recording whether the division left a remainder.
DoubleOfRatio(n, d) ==
    IF n = 0 THEN DoubleZero
    ELSE LET scaled == ShiftLeft(Big(IF n < 0 THEN -n ELSE n), 6 * LimbBits)
             divisor == IF d < 0 THEN -d ELSE d
             division == DivideFrom(scaled, divisor, Len(scaled), 0)
             quotient == Trim(division.q)
         IN  Signed((n < 0) # (d < 0),
                    RoundToDouble(BigAdd(ShiftLeft(quotient, 1),
                                         IF division.r = 0 THEN <<>> ELSE <<1>>),
                                  -(6 * LimbBits) - 1))

DoubleOfInteger(n) == Signed(n < 0, RoundToDouble(Big(IF n < 0 THEN -n ELSE n), 0))

\* x * y
DoubleTimes(x, y) ==
    Signed(x.neg # y.neg, RoundToDouble(BigMul(x.m, y.m), x.e + y.e))

\* x + y: the sum of the magnitudes when the signs agree, otherwise the
\* larger magnitude minus the smaller with the sign of the larger.
DoublePlus(x, y) ==
    IF x.m = <<>> THEN y
    ELSE IF y.m = <<>> THEN x
    ELSE LET e == Min(x.e, y.e)
             a == ShiftLeft(x.m, x.e - e)
             b == ShiftLeft(y.m, y.e - e)
         IN  IF x.neg = y.neg THEN Signed(x.neg, RoundToDouble(BigAdd(a, b), e))
             ELSE IF BigLeq(b, a) THEN Signed(x.neg, RoundToDouble(BigSub(a, b), e))
             ELSE Signed(y.neg, RoundToDouble(BigSub(b, a), e))

\* x <= n for a double x and an integer n
DoubleAtMost(x, n) ==
    IF x.neg
    THEN n >= 0 \/ MagnitudeAtMost(DoubleOfInteger(n), x)
    ELSE n >= 0 /\ MagnitudeAtMost(x, DoubleOfInteger(n))

\* Math.round(x) = floor(x + 1/2) for a double x; for x < 0 that is
\* -ceil(|x| - 1/2), a half going upwards: Math.round(-2.5) is -2.
MathRound(x) ==
    IF x.m = <<>> THEN 0
    ELSE IF x.e >= 0 THEN (IF x.neg THEN -1 ELSE 1) * ToInteger(ShiftLeft(x.m, x.e))
    ELSE IF ~x.neg
    THEN ToInteger(ShiftRight(BigAdd(x.m, ShiftLeft(<<1>>, -x.e - 1)), -x.e))
    ELSE -ToInteger(ShiftRight(BigAdd(x.m, BigSub(ShiftLeft(<<1>>, -x.e - 1), <<1>>)),
                               -x.e))

\* The double quotient r / a of an integer r > 0 and a double a > 0 is at
\* most the integer j > 0.  Rounding is monotone and j is a double with an
\* even mantissa, so the quotient rounds to j or below exactly when
\* r / a <= j + ulp(j) / 2, ulp(j) = 2^(floor(log2 j) - 52):
\* r * 2^(53 - log) <= a.m * 2^a.e * (j * 2^(53 - log) + 1).
QuotientAtMost(r, a, j) ==
    LET log == BitsOf(j) - 1
        bound == BigMul(a.m, BigAdd(ShiftLeft(Big(j), 53 - log), <<1>>))
        shift == 53 - log - a.e
    IN  IF shift >= 0 THEN BigLeq(ShiftLeft(Big(r), shift), bound)
        ELSE BigLeq(Big(r), ShiftLeft(bound, -shift))

\* The rational x lies halfway between two integers.
IsHalfway(x) ==
    /\ (2 * x.num) % x.den = 0
    /\ ((2 * x.num) \div x.den) % 2 = 1

\* The integer nearest to the rational x, halves upwards.
RoundHalfUp(x) == (2 * x.num + x.den) \div (2 * x.den)

\* 1000 * 60 * 60 * 24 ms, the divisor of every day count, in seconds.
SecondsPerDay == 60 * 60 * 24

\* Date.setDate(getDate() + n) under UTC.
AddDays(t, n) == t + n * SecondsPerDay

\* The calendar date of day z, counted from 1970-01-01 (day 0), in the
\* proleptic Gregorian calendar that Date uses.
CivilFromDays(z) ==
    LET z1  == z + 719468
        era == z1 \div 146097
        doe == z1 - era * 146097
        yoe == (doe - doe \div 1460 + doe \div 36524 - doe \div 146096) \div 365
        doy == doe - (365 * yoe + yoe \div 4 - yoe \div 100)
        mp  == (5 * doy + 2) \div 153
        d   == doy - (153 * mp + 2) \div 5 + 1
        m   == IF mp < 10 THEN mp + 3 ELSE mp - 9
        y   == yoe + era * 400 + (IF m <= 2 THEN 1 ELSE 0)
    IN  [year |-> y, month |-> m, day |-> d]

\* The day number, counted from 1970-01-01, of the calendar date y-m-d
\* (1 <= m <= 12; a day d past the end of the month runs into the next).
DaysFromCivil(y, m, d) ==
    LET y1  == IF m <= 2 THEN y - 1 ELSE y
        era == y1 \div 400
        yoe == y1 - era * 400
        doy == (153 * (IF m > 2 THEN m - 3 ELSE m + 9) + 2) \div 5 + d - 1
        doe == yoe * 365 + yoe \div 4 - yoe \div 100 + doy
    IN  era * 146097 + doe - 719468

\* Date.toISOString().split('T')[0]
ISODate(t) ==
    LET c == CivilFromDays(t \div SecondsPerDay)
    IN  <<c.year, c.month, c.day>>

\* A value of type Date | null: null, and the Date of an instant.
Null == [null |-> TRUE, time |-> 0]

DateAt(t) == [null |-> FALSE, time |-> t]


-----------------------------------------------------------------------------
(* calculateForecast, src/unnamed/part_006 lines 42-156 *)

\* Math.max(1, Math.ceil((endDate - startDate) / SecondsPerDay))
\* A variant of totalDays without the minimum of 1.
totalDays_unclamped(p) ==
    Ceil(p.plannedEndDate - p.plannedStartDate, SecondsPerDay)

totalDays(p) ==
    Max(1, Ceil(p.plannedEndDate - p.plannedStartDate, SecondsPerDay))

\* Math.max(0, Math.ceil((today - startDate) / SecondsPerDay))
daysElapsed(p, now) ==
    Max(0, Ceil(now - p.plannedStartDate, SecondsPerDay))

\* Array.prototype.sort with the comparator a.date - b.date: ascending by
\* date and stable (ECMAScript 2019), here as an insertion sort that puts
\* each entry after the entries already placed whose date is not later.
\* A variant of InsertByDate that puts e before the entries of its date.
RECURSIVE InsertByDate_beforeEqual(_, _)
InsertByDate_beforeEqual(e, s) ==
    IF s = <<>> THEN <<e>>
    ELSE IF e.date <= s[1].date THEN <<e>> \o s
    ELSE <<s[1]>> \o InsertByDate_beforeEqual(e, Tail(s))

RECURSIVE InsertByDate(_, _)
InsertByDate(e, s) ==
    IF s = <<>> THEN <<e>>
    ELSE IF e.date < s[1].date THEN <<e>> \o s
    ELSE <<s[1]>> \o InsertByDate(e, Tail(s))

RECURSIVE sortedEntries(_)
sortedEntries(entries) ==
    IF entries = <<>> THEN <<>>
    ELSE LET n == Len(entries)
         IN  InsertByDate(entries[n], sortedEntries(SubSeq(entries, 1, n - 1)))

\* entries.reduce((sum, e) => sum + e.piles, 0) and its two siblings.
RECURSIVE SumPiles(_)
SumPiles(entries) ==
    IF entries = <<>> THEN 0
    ELSE entries[1].piles + SumPiles(Tail(entries))

RECURSIVE SumRacking(_)
SumRacking(entries) ==
    IF entries = <<>> THEN 0
    ELSE entries[1].rackingTables + SumRacking(Tail(entries))

RECURSIVE SumModules(_)
SumModules(entries) ==
    IF entries = <<>> THEN 0
    ELSE entries[1].modules + SumModules(Tail(entries))

\* A variant of ChartLastDay that does not stop the chart at the plan's end.
ChartLastDay_noCap(p, now) == daysElapsed(p, now)

\* The chart loop's upper limit: i runs from 0 to Math.min(daysElapsed, totalDays).
ChartLastDay(p, now) == Min(daysElapsed(p, now), totalDays(p))

\* The loop's date for offset i: startDate moved i days on.
ChartDate(p, i) == AddDays(p.plannedStartDate, i)

\* A variant of dayEntries that keeps only the first entry of the date.
dayEntries_first(sorted, date) ==
    LET matching == SelectSeq(sorted, LAMBDA e : ISODate(e.date) = ISODate(date))
    IN  IF matching = <<>> THEN <<>> ELSE <<Head(matching)>>

\* sortedEntries.filter(same ISO date as the loop's date)
dayEntries(sorted, date) ==
    SelectSeq(sorted, LAMBDA e : ISODate(e.date) = ISODate(date))

\* A variant of cumulativeModules that starts from 0 on every day.
cumulativeModules_ofTheDay(p, sorted, i) ==
    SumModules(dayEntries(sorted, ChartDate(p, i)))

\* cumulativeModules after the iteration for offset i.
RECURSIVE cumulativeModules(_, _, _)
cumulativeModules(p, sorted, i) ==
    IF i < 0 THEN 0
    ELSE cumulativeModules(p, sorted, i - 1)
         + SumModules(dayEntries(sorted, ChartDate(p, i)))

\* A variant of ProgressOf that reports a project without modules as done.
ProgressOf_zeroTargetDone(p, cumulative) ==
    IF p.totalModules > 0
    THEN RatMin(Rat(100, 1), Rat(cumulative * 100, p.totalModules))
    ELSE Rat(100, 1)

\* totalModules > 0 ? Math.min(100, cumulative / totalModules * 100) : 0
ProgressOf(p, cumulative) ==
    IF p.totalModules > 0
    THEN RatMin(Rat(100, 1), Rat(cumulative * 100, p.totalModules))
    ELSE Rat(0, 1)

actualProgress(p, entries, now) ==
    LET sorted == sortedEntries(entries)
    IN  [k \in 1..(ChartLastDay(p, now) + 1) |->
            ProgressOf(p, cumulativeModules(p, sorted, k - 1))]

ChartDates(p, now) ==
    [k \in 1..(ChartLastDay(p, now) + 1) |-> ISODate(ChartDate(p, k - 1))]

\* A variant of PlannedLastDay for a loop that stops before totalDays.
PlannedLastDay_exclusive(p) == totalDays(p) - 1

\* The planned curve's loop: i runs from 0 to totalDays.
PlannedLastDay(p) == totalDays(p)

\* (i / totalDays) * 100
PlannedAt(p, i) == Rat(i * 100, totalDays(p))

plannedProgress(p) ==
    [k \in 1..(PlannedLastDay(p) + 1) |-> PlannedAt(p, k - 1)]

totalInstalled(entries) ==
    [piles   |-> SumPiles(entries),
     racking |-> SumRacking(entries),
     modules |-> SumModules(entries)]

\* A variant of Remaining without the clamp at 0.
Remaining_unclamped(target, installed) == target - installed

\* Math.max(0, target - installed)
Remaining(target, installed) == Max(0, target - installed)

\* A variant of remainingWork that counts only the entries dated on or after
\* the planned start.
remainingWork_sinceStart(p, entries) ==
    LET counted == SelectSeq(entries, LAMBDA e : e.date >= p.plannedStartDate)
    IN  [piles   |-> Remaining(p.totalPiles, SumPiles(counted)),
         racking |-> Remaining(p.totalRackingTables, SumRacking(counted)),
         modules |-> Remaining(p.totalModules, SumModules(counted))]

remainingWork(p, entries) ==
    LET inst == totalInstalled(entries)
    IN  [piles   |-> Remaining(p.totalPiles, inst.piles),
         racking |-> Remaining(p.totalRackingTables, inst.racking),
         modules |-> Remaining(p.totalModules, inst.modules)]

\* The size of the rolling window, the 7 of sortedEntries.slice(-7).
RecentWindow == 7

\* A variant of recentEntries that keeps every entry.
recentEntries_all(sorted) == sorted

\* A variant of recentEntries that takes the first entries, slice(0, 7).
recentEntries_oldest(sorted) ==
    SubSeq(sorted, 1, Min(Len(sorted), RecentWindow))

\* sortedEntries.slice(-7)
recentEntries(sorted) ==
    SubSeq(sorted, Max(1, Len(sorted) - RecentWindow + 1), Len(sorted))

\* A variant of Average that divides by the length of the window, whatever
\* the number of entries in it.
Average_overWindow(sum, count, planned) ==
    IF count > 0 THEN Rat(sum, RecentWindow) ELSE Rat(planned, 1)

\* A variant of Average without the fallback to the planned rate.
Average_zeroWhenEmpty(sum, count, planned) ==
    IF count > 0 THEN Rat(sum, count) ELSE Rat(0, 1)

\* recent.length > 0 ? sum / recent.length : planned
Average(sum, count, planned) ==
    IF count > 0 THEN Rat(sum, count) ELSE Rat(planned, 1)

avgDaily(p, entries) ==
    LET recent == recentEntries(sortedEntries(entries))
    IN  [piles   |-> Average(SumPiles(recent), Len(recent), p.plannedPilesPerDay),
         racking |-> Average(SumRacking(recent), Len(recent), p.plannedRackingPerDay),
         modules |-> Average(SumModules(recent), Len(recent), p.plannedModulesPerDay)]

\* A variant of daysNeeded that rounds down.
daysNeeded_floor(remaining, avg) == (remaining * avg.den) \div avg.num

\* Math.ceil(remaining / avg) for remaining > 0 and avg > 0, avg being the
\* double of the rational avg.num / avg.den.  The double quotient lies
\* within 2^-51 of the exact one, relatively: when the exact quotient is not
\* whole (it is then at least 1 / avg.num away from a whole number) it has
\* the exact quotient's ceiling, and when the exact quotient is the whole
\* number k the double quotient is k or less, or just above k (17 divided
\* by the double of 17 / 7 is 7.000000000000001, 8 days).
daysNeeded(remaining, avg) ==
    IF (remaining * avg.den) % avg.num # 0
    THEN Ceil(remaining * avg.den, avg.num)
    ELSE LET k == (remaining * avg.den) \div avg.num
         IN  IF QuotientAtMost(remaining, DoubleOfRatio(avg.num, avg.den), k)
             THEN k
             ELSE k + 1

\* A variant of VarianceDays that rounds down.
VarianceDays_floor(a, endDate) == (a - endDate) \div SecondsPerDay

\* Math.ceil((a - endDate) / SecondsPerDay)
VarianceDays(a, endDate) == Ceil(a - endDate, SecondsPerDay)

\* A variant of Projection that measures the variance from today when it
\* projects no date.
Projection_lateWithoutDate(p, remaining, avg, now) ==
    IF avg.num > 0 /\ remaining > 0
    THEN LET projected == AddDays(now, Ceil(remaining * avg.den, avg.num))
         IN  [projectedCompletionDate |-> DateAt(projected),
              daysVariance |-> Ceil(projected - p.plannedEndDate, SecondsPerDay)]
    ELSE [projectedCompletionDate |-> IF remaining = 0 THEN DateAt(now) ELSE Null,
          daysVariance |-> Ceil(now - p.plannedEndDate, SecondsPerDay)]

\* A variant of Projection whose second branch is a plain else.
Projection_todayByDefault(p, remaining, avg, now) ==
    IF avg.num > 0 /\ remaining > 0
    THEN LET projected == AddDays(now, Ceil(remaining * avg.den, avg.num))
         IN  [projectedCompletionDate |-> DateAt(projected),
              daysVariance |-> Ceil(projected - p.plannedEndDate, SecondsPerDay)]
    ELSE [projectedCompletionDate |-> DateAt(now),
          daysVariance |-> Ceil(now - p.plannedEndDate, SecondsPerDay)]

\* The branch on avgDaily.modules and remainingWork.modules that sets
\* projectedCompletionDate and daysVariance.
Projection(p, remaining, avg, now) ==
    IF avg.num > 0 /\ remaining > 0
    THEN LET projected == AddDays(now, daysNeeded(remaining, avg))
         IN  [projectedCompletionDate |-> DateAt(projected),
              daysVariance |-> VarianceDays(projected, p.plannedEndDate)]
    ELSE IF remaining = 0
    THEN [projectedCompletionDate |-> DateAt(now),
          daysVariance |-> VarianceDays(now, p.plannedEndDate)]
    ELSE [projectedCompletionDate |-> Null, daysVariance |-> 0]

\* A variant of scheduleHealth whose yellow band ends before 7.
scheduleHealth_underAWeek(daysVariance) ==
    IF daysVariance <= 0 THEN "green"
    ELSE IF daysVariance < 7 THEN "yellow"
    ELSE "red"

\* daysVariance <= 0: green; <= 7: yellow; otherwise red.
scheduleHealth(daysVariance) ==
    IF daysVariance <= 0 THEN "green"
    ELSE IF daysVariance <= 7 THEN "yellow"
    ELSE "red"

calculateForecast(p, entries, now) ==
    LET remaining == remainingWork(p, entries)
        avg       == avgDaily(p, entries)
        proj      == Projection(p, remaining.modules, avg.modules, now)
    IN  [plannedProgress         |-> plannedProgress(p),
         actualProgress          |-> actualProgress(p, entries, now),
         dates                   |-> ChartDates(p, now),
         projectedCompletionDate |-> proj.projectedCompletionDate,
         daysVariance            |-> proj.daysVariance,
         scheduleHealth          |-> scheduleHealth(proj.daysVariance),
         remainingWork           |-> remaining,
         averageDailyProduction  |-> avg]

-----------------------------------------------------------------------------
(* getPercentComplete, src/unnamed/part_006 lines 158-186 *)

\* A variant of PercentOf that never reports more than 100 percent.
PercentOf_capped(total, target) ==
    IF target > 0
    THEN RatMin(Rat(100, 1), Rat(total * 100, target))
    ELSE Rat(0, 1)

\* target > 0 ? (total / target) * 100 : 0
PercentOf(total, target) ==
    IF target > 0 THEN Rat(total * 100, target) ELSE Rat(0, 1)

\* The double (total / target) * 100, or 0 without a target.
PercentDouble(total, target) ==
    IF target > 0
    THEN DoubleTimes(DoubleOfRatio(total, target), DoubleOfInteger(100))
    ELSE DoubleZero

\* The double a * 0.15 + b * 0.25 + c * 0.6 of three doubles.
WeightedDouble(a, b, c) ==
    DoublePlus(DoublePlus(DoubleTimes(a, DoubleOfRatio(15, 100)),
                          DoubleTimes(b, DoubleOfRatio(25, 100))),
               DoubleTimes(c, DoubleOfRatio(6, 10)))

\* Math.round(double * 10) / 10, x being the value that the expression of
\* `double` has in exact arithmetic.  The two differ by less than 2^-48 of
\* x: when 10 x is not halfway between two integers the double rounds as x
\* does, and when it is the double arithmetic decides (27.75 is computed as
\* 27.749999999999996 and returned as 27.7).
RoundTenth(x, double) ==
    LET tenfold == Rat(x.num * 10, x.den)
    IN  Rat(IF IsHalfway(tenfold)
            THEN MathRound(DoubleTimes(double, DoubleOfInteger(10)))
            ELSE RoundHalfUp(tenfold),
            10)

\* A variant of Overall that weighs the category percentages after they
\* have been rounded.
Overall_ofRounded(pp, rp, mp) ==
    LET a == Rat(RoundHalfUp(Rat(pp.num * 10, pp.den)), 10)
        b == Rat(RoundHalfUp(Rat(rp.num * 10, rp.den)), 10)
        c == Rat(RoundHalfUp(Rat(mp.num * 10, mp.den)), 10)
    IN  Rat(15 * a.num * b.den * c.den
              + 25 * b.num * a.den * c.den
              + 60 * c.num * a.den * b.den,
            100 * a.den * b.den * c.den)

\* pilesPercent * 0.15 + rackingPercent * 0.25 + modulesPercent * 0.6
Overall(pp, rp, mp) ==
    Rat(15 * pp.num * rp.den * mp.den
          + 25 * rp.num * pp.den * mp.den
          + 60 * mp.num * pp.den * rp.den,
        100 * pp.den * rp.den * mp.den)

getPercentComplete(p, entries) ==
    LET totals == totalInstalled(entries)
        pp == PercentOf(totals.piles, p.totalPiles)
        rp == PercentOf(totals.racking, p.totalRackingTables)
        mp == PercentOf(totals.modules, p.totalModules)
        pd == PercentDouble(totals.piles, p.totalPiles)
        rd == PercentDouble(totals.racking, p.totalRackingTables)
        md == PercentDouble(totals.modules, p.totalModules)
    IN  [piles   |-> RoundTenth(pp, pd),
         racking |-> RoundTenth(rp, rd),
         modules |-> RoundTenth(mp, md),
         overall |-> RoundTenth(Overall(pp, rp, mp), WeightedDouble(pd, rd, md))]

-----------------------------------------------------------------------------
(* getProductionStats, src/unnamed/part_006 lines 188-216 *)

\* new Date(today.getFullYear(), today.getMonth(), today.getDate())
StartOfDay(now) ==
    LET c == CivilFromDays(now \div SecondsPerDay)
    IN  DaysFromCivil(c.year, c.month, c.day) * SecondsPerDay

\* startDate.setDate(startDate.getDate() - 7)
WeekBefore(now) == AddDays(now, -7)

\* startDate.setMonth(startDate.getMonth() - 1): the same day number and
\* time of day in the previous month; a day number that month does not have
\* runs into the month after it.
MonthBefore(now) ==
    LET c == CivilFromDays(now \div SecondsPerDay)
        y == IF c.month = 1 THEN c.year - 1 ELSE c.year
        m == IF c.month = 1 THEN 12 ELSE c.month - 1
    IN  (DaysFromCivil(y, m, 1) + c.day - 1) * SecondsPerDay
            + (now % SecondsPerDay)

\* The switch on type.
startDate(type, now) ==
    CASE type = "today" -> StartOfDay(now)
      [] type = "week"  -> WeekBefore(now)
      [] type = "month" -> MonthBefore(now)

\* productionEntries.filter(e => new Date(e.date) >= startDate)
filteredEntries(entries, type, now) ==
    SelectSeq(entries, LAMBDA e : e.date >= startDate(type, now))

getProductionStats(entries, type, now) ==
    LET filtered == filteredEntries(entries, type, now)
    IN  [piles   |-> SumPiles(filtered),
         racking |-> SumRacking(filtered),
         modules |-> SumModules(filtered)]

-----------------------------------------------------------------------------
(* getScheduleHealth of the dashboard, src/src/app/page.tsx lines          *)
(* 1578-1613 and its copy src/unnamed/part_004 lines 3747-3780; the entry  *)
(* list is the project's productionEntries field                           *)

\* 0 / 0
NaN == [num |-> 0, den |-> 0]

\* Math.round(double), x being the value that the expression of `double`
\* has in exact arithmetic: away from a half the double rounds as x does,
\* at a half the double arithmetic decides.
RoundInteger(x, double) ==
    IF IsHalfway(x) THEN MathRound(double) ELSE RoundHalfUp(x)

\* target > 0 ? Math.round((installed / target) * 100) : 0
RoundedPercentOf(installed, target) ==
    IF target > 0
    THEN RoundInteger(Rat(installed * 100, target), PercentDouble(installed, target))
    ELSE 0

calculateProjectProgress(p, entries) ==
    LET piles   == RoundedPercentOf(SumPiles(entries), p.totalPiles)
        racking == RoundedPercentOf(SumRacking(entries), p.totalRackingTables)
        modules == RoundedPercentOf(SumModules(entries), p.totalModules)
    IN  [piles            |-> piles,
         racking          |-> racking,
         modules          |-> modules,
         overall          |-> RoundInteger(
                                  Rat(15 * piles + 25 * racking + 60 * modules, 100),
                                  WeightedDouble(DoubleOfInteger(piles),
                                                 DoubleOfInteger(racking),
                                                 DoubleOfInteger(modules))),
         pilesInstalled   |-> SumPiles(entries),
         rackingInstalled |-> SumRacking(entries),
         modulesInstalled |-> SumModules(entries)]

MinusInfinity == [num |-> -1, den |-> 0]

\* Math.ceil(a / b) is -0, not 0, when -1 < a / b < 0 (b > 0).
CeilIsMinusZero(a, b) == -b < a /\ a < 0

\* Math.min(100, (daysElapsed / totalDays) * 100), for any integer totalDays;
\* minusZero tells the zero -0 from 0.  0 / 0 and 0 / -0 are NaN, a positive
\* number / 0 is Infinity, a positive number / -0 is -Infinity, and a
\* negative totalDays gives a quotient that is not positive.
expectedProgress(elapsed, total, minusZero) ==
    IF total = 0
    THEN IF elapsed = 0 THEN NaN
         ELSE IF minusZero THEN MinusInfinity ELSE Rat(100, 1)
    ELSE IF total < 0
    THEN Rat(-(elapsed * 100), -total)
    ELSE RatMin(Rat(100, 1), Rat(elapsed * 100, total))

\* A variant of healthOfVariance with the thresholds of the day classifier.
healthOfVariance_sevenPoints(expected, overall, double) ==
    IF expected = NaN THEN "red"
    ELSE IF expected = MinusInfinity THEN "green"
    ELSE LET variance == Rat(expected.num - overall * expected.den, expected.den)
         IN  IF variance.num <= 0 THEN "green"
             ELSE IF variance.num <= 7 * variance.den THEN "yellow"
             ELSE "red"

\* (daysElapsed / totalDays) * 100 as the code computes it, for a totalDays
\* other than 0 and -0.
expectedDouble(elapsed, total) ==
    IF total = 0
    THEN DoubleZero
    ELSE DoubleTimes(DoubleOfRatio(elapsed, total), DoubleOfInteger(100))

\* variance = expectedProgress - progress.overall; <= 0: green; <= 5:
\* yellow; otherwise red (every comparison with NaN is false).  `expected`
\* is the value of expectedProgress in exact arithmetic and `double` the
\* double (daysElapsed / totalDays) * 100, of either sign (totalDays may be
\* negative, and so may progress.overall when counts are).  The double
\* variance is within 2^-40 of the exact one, so the exact one decides
\* unless it is 0 or 5: (7 / 100) * 100 is 7.000000000000001, above an overall
\* progress of 7, and (29 / -100) * 100 is -28.999999999999996, above an
\* overall progress of -29.  An expectedProgress of 100 or more is capped
\* to 100 exactly.
healthOfVariance(expected, overall, double) ==
    IF expected = NaN THEN "red"
    ELSE IF expected = MinusInfinity THEN "green"
    ELSE LET variance == Rat(expected.num - overall * expected.den, expected.den)
             atThreshold == /\ expected.num < 100 * expected.den
                            /\ variance.num \in {0, 5 * variance.den}
             difference == DoublePlus(double, DoubleOfInteger(-overall))
         IN  IF atThreshold
             THEN IF DoubleAtMost(difference, 0) THEN "green"
                  ELSE IF DoubleAtMost(difference, 5) THEN "yellow"
                  ELSE "red"
             ELSE IF variance.num <= 0 THEN "green"
             ELSE IF variance.num <= 5 * variance.den THEN "yellow"
             ELSE "red"

\* page.tsx: totalDays is Math.ceil((end - start) / day), without a minimum:
\* it is -0 for a plan that ends less than a day before it starts.
\* Math.max(0, -0) is 0, so daysElapsed is never -0.
getScheduleHealth(p, entries, now) ==
    LET progress  == calculateProjectProgress(p, entries)
        total     == Ceil(p.plannedEndDate - p.plannedStartDate, SecondsPerDay)
        minusZero == CeilIsMinusZero(p.plannedEndDate - p.plannedStartDate,
                                     SecondsPerDay)
        elapsed   == Max(0, Ceil(now - p.plannedStartDate, SecondsPerDay))
    IN  healthOfVariance(expectedProgress(elapsed, total, minusZero),
                         progress.overall, expectedDouble(elapsed, total))

\* part_004: totalDays is Math.max(1, Math.ceil((end - start) / day)), at
\* least 1 (Math.max(1, -0) is 1).
getScheduleHealthPart004(p, entries, now) ==
    LET progress  == calculateProjectProgress(p, entries)
        total     == Max(1, Ceil(p.plannedEndDate - p.plannedStartDate,
                                 SecondsPerDay))
        elapsed   == Max(0, Ceil(now - p.plannedStartDate, SecondsPerDay))
    IN  healthOfVariance(expectedProgress(elapsed, total, FALSE),
                         progress.overall, expectedDouble(elapsed, total))

-----------------------------------------------------------------------------
(* Inputs explored *)

\* Calendar days 0 .. MaxDay of January 1970 hold the plans and the clock
\* of the small projects.
MaxDay == 3

\* Largest module target of a project.
MaxTarget == 4

\* Largest module count of one entry.
MaxCount == 2

\* Longest entry list of the main specification.
MaxEntries == 2

HalfDay == SecondsPerDay \div 2

\* 2 January, at midnight and at noon.
StartDates == {SecondsPerDay, SecondsPerDay + HalfDay}

\* Before the start (an inverted range), one day and MaxDay - 1 days after
\* the earlier start.
EndDates == {0, 2 * SecondsPerDay, MaxDay * SecondsPerDay}

\* Before the start, during the plan, and after its end.
Todays == {HalfDay, SecondsPerDay + HalfDay, 2 * SecondsPerDay, MaxDay * SecondsPerDay + HalfDay}

\* 1 January (before every start), 2 January at noon, 3 January at midnight,
\* and the midnight that begins day MaxDay (after the shorter plans' end).
EntryDates == {HalfDay, SecondsPerDay + HalfDay, 2 * SecondsPerDay,
               MaxDay * SecondsPerDay}

Projects ==
    [totalPiles           : {1},
     totalRackingTables   : {0, 2},
     totalModules         : 0..MaxTarget,
     plannedStartDate     : StartDates,
     plannedEndDate       : EndDates,
     plannedPilesPerDay   : {3},
     plannedRackingPerDay : {2},
     plannedModulesPerDay : {0, 1}]

\* A module crew's report of a day (one module on any day, up to MaxCount
\* on 2 January), and a civil crew's (piles and racking, no modules).
ModuleEntries ==
    [date : EntryDates, piles : {0}, rackingTables : {0}, modules : {1}]
        \cup [date : {SecondsPerDay + HalfDay}, piles : {0}, rackingTables : {0},
              modules : 1..MaxCount]

CivilEntries ==
    [date : {SecondsPerDay + HalfDay}, piles : {2}, rackingTables : {1}, modules : {0}]

Entries == ModuleEntries \cup CivilEntries

EntryLists == UNION {[1..n -> Entries] : n \in 0..MaxEntries}

\* Lists longer than the rolling window exceed it by at most MaxExtra.
MaxExtra == 1

\* Long lists, over one module crew's report of 1 January and the civil
\* crew's of 2 January, for small projects.
WindowProjects ==
    [totalPiles           : {1},
     totalRackingTables   : {2, 7},
     totalModules         : {0, 3},
     plannedStartDate     : {SecondsPerDay},
     plannedEndDate       : {2 * SecondsPerDay},
     plannedPilesPerDay   : {3},
     plannedRackingPerDay : {2},
     plannedModulesPerDay : {1}]

WindowEntries ==
    [date : {HalfDay}, piles : {0}, rackingTables : {0}, modules : {1}]
        \cup CivilEntries

WindowLists ==
    UNION {[1..n -> WindowEntries] :
              n \in (MaxEntries + 1)..(RecentWindow + MaxExtra)}

\* The instant s seconds into the calendar day y-m-d.
UTC(y, m, d, s) == DaysFromCivil(y, m, d) * SecondsPerDay + s

\* Plans that end at the instant they start.
SameDayProjects ==
    {p \in [totalPiles           : {1},
            totalRackingTables   : {2},
            totalModules         : {2},
            plannedStartDate     : StartDates,
            plannedEndDate       : StartDates,
            plannedPilesPerDay   : {3},
            plannedRackingPerDay : {2},
            plannedModulesPerDay : {1}] :
        p.plannedEndDate = p.plannedStartDate}

\* The project of the worked scenarios: 1000 modules, planned from
\* 2024-01-01 to 2024-01-11.
ScenarioProjects ==
    [totalPiles           : {0},
     totalRackingTables   : {0},
     totalModules         : {1000},
     plannedStartDate     : {UTC(2024, 1, 1, 0)},
     plannedEndDate       : {UTC(2024, 1, 11, 0)},
     plannedPilesPerDay   : {0},
     plannedRackingPerDay : {0},
     plannedModulesPerDay : {100}]

\* Longest entry list of the scenario evaluated on day 5.
MaxScenarioEntries == 7

\* The lists of n module-crew entries, all dated d, with module counts from
\* counts that add up to total.
RECURSIVE ListsTotalling(_, _, _, _)
ListsTotalling(total, counts, n, d) ==
    IF n = 0
    THEN IF total = 0 THEN {<<>>} ELSE {}
    ELSE UNION {{<<[date |-> d, piles |-> 0, rackingTables |-> 0, modules |-> m]>>
                    \o rest : rest \in ListsTotalling(total - m, counts, n - 1, d)}
                : m \in {c \in counts : c <= total}}

\* Day 5 of the plan: lists of 500 modules reported on 2024-01-06.
HalfwayToday == UTC(2024, 1, 6, 0)

HalfwayLists ==
    UNION {ListsTotalling(500, {0, 50, 100, 250, 500}, n, d) :
              n \in 1..MaxScenarioEntries,
              d \in {UTC(2024, 1, 6, 0), UTC(2024, 1, 6, HalfDay)}}

\* Day 8 of the plan, at midnight and at noon: lists of 100 modules
\* reported before the start, on day 4 or on day 8.
BehindTodays == {UTC(2024, 1, 9, 0), UTC(2024, 1, 9, HalfDay)}

BehindLists ==
    UNION {ListsTotalling(100, {0, 50, 100}, n, d) :
              n \in 1..(RecentWindow + MaxExtra),
              d \in {UTC(2023, 12, 31, HalfDay), UTC(2024, 1, 5, HalfDay),
                     UTC(2024, 1, 9, 0)}}

\* Projects whose quotients fall on a rounding boundary in exact
\* arithmetic: 34 modules of which 17 are installed at 17 / 7 a day (7 days
\* of work exactly, and 17 / 2.4285714285714284 is 7.000000000000001), and
\* 10 or no piles, 4 racking tables and 3 modules of which one each is
\* installed (27.75 and 26.25 percent overall, exactly).
BoundaryProjects ==
    [totalPiles           : {0, 10},
     totalRackingTables   : {4},
     totalModules         : {3, 34},
     plannedStartDate     : {UTC(2024, 1, 1, 0)},
     plannedEndDate       : {UTC(2024, 1, 9, 0), UTC(2024, 1, 11, 0),
                             UTC(2024, 1, 15, 0)},
     plannedPilesPerDay   : {3},
     plannedRackingPerDay : {2},
     plannedModulesPerDay : {1}]

BoundaryTodays == {UTC(2024, 1, 8, 0), UTC(2024, 1, 8, HalfDay), UTC(2024, 1, 9, 0)}

\* 3, 3, 3, 2, 2, 2 and 2 modules on the first seven days of 2024.
WeekOfModules ==
    [i \in 1..RecentWindow |->
        [date |-> UTC(2024, 1, i, 0), piles |-> 0, rackingTables |-> 0,
         modules |-> IF i <= 3 THEN 3 ELSE 2]]

BoundaryLists ==
    {WeekOfModules}
        \cup {<<[date |-> UTC(2024, 1, 1, 0), piles |-> n, rackingTables |-> 1,
                 modules |-> 1]>> : n \in {0, 1}}

\* A plan of 20 days with 20 of everything, read when 11 of its days have
\* elapsed: (11 / 20) * 100 is 55.00000000000001.  10 or 11 of everything
\* installed is an overall progress of 50 or 55.
HealthBoundaryProjects ==
    [totalPiles           : {20},
     totalRackingTables   : {20},
     totalModules         : {20},
     plannedStartDate     : {UTC(2024, 1, 1, 0)},
     plannedEndDate       : {UTC(2024, 1, 21, 0)},
     plannedPilesPerDay   : {3},
     plannedRackingPerDay : {2},
     plannedModulesPerDay : {1}]

HealthBoundaryToday == UTC(2024, 1, 12, 0)

\* Plans that end a second or an hour before they start: their totalDays
\* is -0 in page.tsx.
BackwardProjects ==
    [totalPiles           : {4},
     totalRackingTables   : {4},
     totalModules         : {4},
     plannedStartDate     : {UTC(2024, 1, 1, 0)},
     plannedEndDate       : {UTC(2023, 12, 31, SecondsPerDay - 1),
                             UTC(2023, 12, 31, SecondsPerDay - 3600)},
     plannedPilesPerDay   : {3},
     plannedRackingPerDay : {2},
     plannedModulesPerDay : {1}]

\* Before the start, at the start, a second after it and a day after it.
BackwardTodays ==
    {UTC(2023, 12, 31, HalfDay), UTC(2024, 1, 1, 0), UTC(2024, 1, 1, 1),
     UTC(2024, 1, 2, 0)}

\* No report, 1 of 4 and 4 of 4 of everything installed.
BackwardLists ==
    {<<>>}
        \cup {<<[date |-> UTC(2024, 1, 1, 0), piles |-> n, rackingTables |-> n,
                 modules |-> n]>> : n \in {1, 4}}

\* A plan of 100 of everything that ends 100 days before it starts, read
\* 29 days after its start: (29 / -100) * 100 is -28.999999999999996.
ReturnedProjects ==
    [totalPiles           : {100},
     totalRackingTables   : {100},
     totalModules         : {100},
     plannedStartDate     : {UTC(2024, 5, 1, 0)},
     plannedEndDate       : {UTC(2024, 1, 22, 0)},
     plannedPilesPerDay   : {3},
     plannedRackingPerDay : {2},
     plannedModulesPerDay : {1}]

ReturnedToday == UTC(2024, 5, 30, 0)

\* One report that takes back 28, 29, 34 or 35 of everything (a correction
\* entered as negative counts): an overall progress of -28 to -35.
ReturnedLists ==
    {<<[date |-> UTC(2024, 5, 1, 0), piles |-> -n, rackingTables |-> -n,
        modules |-> -n]>> : n \in {28, 29, 34, 35}}

HealthBoundaryLists ==
    {<<[date |-> UTC(2024, 1, 11, 0), piles |-> n, rackingTables |-> n,
        modules |-> n]>> : n \in {10, 11}}

\* A project planned for March 2024.
StatsProjects ==
    [totalPiles           : {2},
     totalRackingTables   : {5},
     totalModules         : {10},
     plannedStartDate     : {UTC(2024, 3, 1, 0)},
     plannedEndDate       : {UTC(2024, 3, 31, 0)},
     plannedPilesPerDay   : {3},
     plannedRackingPerDay : {2},
     plannedModulesPerDay : {1}]

\* Noon of 15 March and of 31 March 2024 (February has no day 31).
StatsTodays == {UTC(2024, 3, 15, HalfDay), UTC(2024, 3, 31, HalfDay)}

\* The instants at which a window of one of StatsTodays starts, instants
\* half a day before one, and an instant after both clocks.
StatsEntryDates ==
    {UTC(2024, 2, 15, 0), UTC(2024, 2, 15, HalfDay), UTC(2024, 3, 1, HalfDay),
     UTC(2024, 3, 8, HalfDay), UTC(2024, 3, 15, 0), UTC(2024, 3, 24, 0),
     UTC(2024, 3, 31, 0), UTC(2024, 4, 1, 0)}

StatsEntries ==
    [date : StatsEntryDates, piles : {1}, rackingTables : {2}, modules : {3}]

StatsLists == UNION {[1..n -> StatsEntries] : n \in 0..MaxEntries}

StatsTypes == {"today", "week", "month"}

-----------------------------------------------------------------------------------------------------------------------------------------------------
(* The database and its route handlers: POST /api/sync                     *)
(* (src/src/app/api/sync/route.ts), POST and DELETE /api/production        *)
(* (src/unnamed/part_002), POST /api/inspections, POST and DELETE          *)
(* /api/projects, POST and DELETE /api/users.                              *)
(*                                                                         *)
(* A row of ProductionEntry or of QCInspection is [id, localId, deviceId,  *)
(* projectId, userId]; a table is the sequence of its rows in the order of *)
(* their creation.  The ids that create() generates (cuid) are never       *)
(* issued twice: the n-th row created in these two tables has id n.  The   *)
(* columns that no handler modelled here reads back or filters on (date,   *)
(* piles, ...) are left out, and with them the PUT handlers of the routes, *)
(* which update only such columns.  A field that the JSON of a request     *)
(* lacks is Absent: Prisma drops an undefined field from a `where` filter  *)
(* and stores NULL for it in `data`.                                       *)
(*                                                                         *)
(* The seed handlers (api/companies/route.ts:102 and part_003:6) return    *)
(* at once when a company exists, and no handler deletes a company: the    *)
(* company of the first project and user is there throughout, so they      *)
(* change nothing.                                                         *)

Absent == "undefined"

SqlNull == "NULL"

LocalIds == {"local_1", "local_2"}

DeviceIds == {"device_1", Absent}

\* The Project and the User table hold one row each at the start.  The
\* projects created later get the ids that create() generates (cuid), each
\* once: NewProjectIds in this order.  No user is created later (see
\* PostUser): OtherUserIds are ids that a request may name and that no row
\* of User has.  A row that names a project or a user that is not in its
\* table breaks the foreign key and create() throws.
FirstProjectIds == {"project_1"}

NewProjectIds == <<"project_2">>

ProjectIds == FirstProjectIds \cup {NewProjectIds[k] : k \in DOMAIN NewProjectIds}

FirstUserIds == {"user_1"}

OtherUserIds == {"user_2"}

UserIds == FirstUserIds \cup OtherUserIds

\* The projects and users that the requests explored name together: the
\* first project with any user, and the first user with any project.
Owners ==
    {o \in [projectId : ProjectIds, userId : UserIds] :
        o.projectId \in FirstProjectIds \/ o.userId \in FirstUserIds}

\* The payloads explored, of an item of a sync request as of the body of a
\* POST /api/production: for the first project and user, the first localId
\* with or without a deviceId and the second with one; for the other
\* owners, the first localId with a deviceId.
Payloads ==
    {[localId |-> k[1], deviceId |-> k[2], projectId |-> "project_1",
      userId |-> "user_1"] :
        k \in {<<"local_1", "device_1">>, <<"local_1", Absent>>,
               <<"local_2", "device_1">>}}
    \cup {[localId |-> "local_1", deviceId |-> "device_1",
           projectId |-> o.projectId, userId |-> o.userId] : o \in Owners}

\* The items explored: those the client queues for a production entry
\* (entity 'production') and for an inspection (entity 'inspection', of the
\* first localId, project and user and with a deviceId), an item of an
\* entity the switch does not know, and items that lack their payload.
\* item.localId is the localId of the payload.
SyncItems ==
    {[entity |-> "production", localId |-> p.localId, payload |-> p] :
        p \in Payloads}
    \cup {[entity |-> "inspection", localId |-> p.localId, payload |-> p] :
            p \in {q \in Payloads : q.localId = "local_1" /\ q.deviceId # Absent
                                       /\ q.projectId = "project_1"
                                       /\ q.userId = "user_1"}}
    \cup {[entity |-> "unknown", localId |-> p.localId, payload |-> p] :
            p \in {q \in Payloads : q.localId = "local_1" /\ q.deviceId = Absent}}
    \cup {[entity |-> e, localId |-> "local_1"] : e \in {"production", "inspection"}}

\* The bodies explored of a POST /api/inspections.
InspectionBodies == Owners

Requests == {"request_1", "request_2"}

\* The longest data.items of a request.
MaxItems == 1

\* The most rows that are ever created, in all tables together.
MaxIds == 2

NoRow == [id |-> 0]

NoItem == [entity |-> "none"]

\* where: { localId: payload.localId, deviceId: payload.deviceId }
Where(row, payload) ==
    /\ payload.localId = Absent \/ row.localId = payload.localId
    /\ payload.deviceId = Absent \/ row.deviceId = payload.deviceId

\* A variant of findFirst that finds no row.
findFirst_none(table, payload) == {NoRow}

\* db.productionEntry.findFirst({ where }) and db.qCInspection.findFirst:
\* the rows it may return (the query has no orderBy, so any matching row),
\* or null when none matches.
findFirst(table, payload) ==
    LET matching == {table[k] : k \in {j \in DOMAIN table : Where(table[j], payload)}}
    IN  IF matching = {} THEN {NoRow} ELSE matching

Column(field) == IF field = Absent THEN SqlNull ELSE field

\* create({ data }): whether the insert is accepted (projectId and userId
\* are NOT NULL foreign keys of both tables).
CreateAccepted(projects, users, data) ==
    /\ data.projectId \in projects
    /\ data.userId \in users

\* The row that create() inserts as the n-th of the database.
CreatedRow(n, data) ==
    [id |-> n, localId |-> Column(data.localId),
     deviceId |-> Column(data.deviceId), projectId |-> data.projectId,
     userId |-> data.userId]

\* The rows left by a delete of the rows with one of the ids `gone`.
Without(table, gone) == SelectSeq(table, LAMBDA row : row.id \notin gone)

\* The ids of the rows of a table that reference the row `id` of the table
\* `referenced` in their column `field`, if there is that row.
Referencing(table, field, referenced, id) ==
    {table[k].id : k \in {j \in DOMAIN table : id \in referenced /\ table[j][field] = id}}

\* The rows created so far.
RowsCreated == idsIssued + projectIdsIssued

\* A request that has not arrived yet.
NotReceived == [pc |-> "idle", left |-> 0, item |-> NoItem, results |-> <<>>]

ServerAtRest ==
    /\ productionEntryTable = <<>>
    /\ qCInspectionTable = <<>>
    /\ projectTable = FirstProjectIds
    /\ userTable = FirstUserIds
    /\ projectIdsIssued = 0
    /\ idsIssued = 0
    /\ requests = [r \in Requests |-> NotReceived]

-----
(* The client store (src/src/store/useAppStore.ts)                         *)

QueueIds == {"queued_1", "queued_2"}

\* OfflineQueueItem; operation, data and timestamp are never read.
OfflineQueueItems == [id : QueueIds, type : {"production", "inspection"}]

\* The longest offlineQueue and the largest pendingSyncCount explored.
MaxQueue == 3

StoreAtRest ==
    /\ offlineQueue = <<>>
    /\ pendingSyncCount = 0

-----------------------------------------------------------------------------
(* Behaviours *)

NoCall == [op |-> "none"]

Init ==
    /\ \/ /\ project \in Projects
          /\ productionEntries \in EntryLists
          /\ today \in Todays
       \/ /\ project \in WindowProjects
          /\ productionEntries \in WindowLists
          /\ today \in {2 * SecondsPerDay}
       \/ /\ project \in SameDayProjects
          /\ productionEntries \in EntryLists
          /\ today \in Todays
       \/ /\ project \in ScenarioProjects
          /\ productionEntries \in HalfwayLists
          /\ today = HalfwayToday
       \/ /\ project \in ScenarioProjects
          /\ productionEntries \in BehindLists
          /\ today \in BehindTodays
       \/ /\ project \in BoundaryProjects
          /\ productionEntries \in BoundaryLists
          /\ today \in BoundaryTodays
    /\ returned = NoCall
    /\ ServerAtRest
    /\ StoreAtRest

\* A variant of EntriesAfterSorting for a sort of the argument itself.
EntriesAfterSorting_inPlace(entries) == sortedEntries(entries)

\* The caller's array after `[...productionEntries].sort(...)`: the sort
\* reorders the copy that the spread makes.
EntriesAfterSorting(entries) == entries

\* A call of calculateForecast(project, productionEntries); `today` is the
\* clock reading of its first statement.
CalculateForecast ==
    /\ returned' = [op |-> "calculateForecast",
                    value |-> calculateForecast(project, productionEntries, today)]
    /\ productionEntries' = EntriesAfterSorting(productionEntries)
    /\ UNCHANGED <<project, today, serverVars, storeVars>>

\* A call of getPercentComplete(project, productionEntries).
GetPercentComplete ==
    /\ returned' = [op |-> "getPercentComplete",
                    value |-> getPercentComplete(project, productionEntries)]
    /\ UNCHANGED <<project, productionEntries, today, serverVars, storeVars>>

Next == CalculateForecast \/ GetPercentComplete

Spec == Init /\ [][Next]_vars

\* A call of getProductionStats(productionEntries, type); `today` is the
\* clock reading of its first statement.
GetProductionStats ==
    \E type \in StatsTypes :
        /\ returned' = [op |-> "getProductionStats",
                        type |-> type,
                        value |-> getProductionStats(productionEntries, type, today)]
        /\ UNCHANGED <<project, productionEntries, today, serverVars, storeVars>>

\* The three functions, called on a project of March 2024.
InitStats ==
    /\ project \in StatsProjects
    /\ productionEntries \in StatsLists
    /\ today \in StatsTodays
    /\ returned = NoCall
    /\ ServerAtRest
    /\ StoreAtRest

NextStats == CalculateForecast \/ GetPercentComplete \/ GetProductionStats

SpecStats == InitStats /\ [][NextStats]_vars

\* A call of getScheduleHealth(project) of page.tsx; `today` is the clock
\* reading of its second statement.
GetScheduleHealth ==
    /\ returned' = [op |-> "getScheduleHealth",
                    value |-> getScheduleHealth(project, productionEntries, today)]
    /\ UNCHANGED <<project, productionEntries, today, serverVars, storeVars>>

\* A call of getScheduleHealth(project) of part_004.
GetScheduleHealthPart004 ==
    /\ returned' = [op |-> "getScheduleHealthPart004",
                    value |-> getScheduleHealthPart004(project, productionEntries,
                                                       today)]
    /\ UNCHANGED <<project, productionEntries, today, serverVars, storeVars>>

\* The small projects with no or MaxTarget modules, and the plans that end
\* as they start.
HealthProjects ==
    {p \in Projects : p.totalModules \in {0, MaxTarget}} \cup SameDayProjects

\* Both health classifiers, called on the same project, list and clock.
InitHealth ==
    /\ \/ /\ project \in HealthProjects
          /\ productionEntries \in EntryLists
          /\ today \in Todays
       \/ /\ project \in HealthBoundaryProjects
          /\ productionEntries \in HealthBoundaryLists
          /\ today = HealthBoundaryToday
       \/ /\ project \in BackwardProjects
          /\ productionEntries \in BackwardLists
          /\ today \in BackwardTodays
       \/ /\ project \in ReturnedProjects
          /\ productionEntries \in ReturnedLists
          /\ today = ReturnedToday
    /\ returned = NoCall
    /\ ServerAtRest
    /\ StoreAtRest

NextHealth == CalculateForecast \/ GetScheduleHealth \/ GetScheduleHealthPart004

SpecHealth == InitHealth /\ [][NextHealth]_vars

\* Forecasts of the projects with no or MaxTarget modules and of the
\* projects of the long lists; every list comes with all its permutations.
OrderProjects ==
    {p \in Projects : /\ p.totalModules \in {0, MaxTarget}
                      /\ p.totalRackingTables = 2
                      /\ p.plannedModulesPerDay = 1}

InitOrder ==
    /\ \/ /\ project \in OrderProjects
          /\ productionEntries \in EntryLists
          /\ today \in Todays
       \/ /\ project \in WindowProjects
          /\ productionEntries \in WindowLists
          /\ today \in {2 * SecondsPerDay}
    /\ returned = NoCall
    /\ ServerAtRest
    /\ StoreAtRest

NextOrder == CalculateForecast

SpecOrder == InitOrder /\ [][NextOrder]_vars

-----------------------------------------------------------------------------
(* Behaviours of the sync endpoint *)

\* The forecast library is not called.
LibraryAtRest ==
    /\ project = [id |-> "none"]
    /\ productionEntries = <<>>
    /\ today = 0
    /\ returned = NoCall

Pushed(r, result) ==
    [requests EXCEPT ![r].pc = "loop", ![r].left = @ - 1, ![r].item = NoItem,
                     ![r].results = Append(@, result)]

\* POST /api/sync: request r arrives with data.items of some length; the
\* items themselves are drawn as the loop reaches them.
Post(r) ==
    /\ requests[r].pc = "idle"
    /\ \E n \in 0..MaxItems :
          requests' = [requests EXCEPT ![r].pc = "loop", ![r].left = n]
    /\ UNCHANGED <<project, productionEntries, today, returned, tables, storeVars>>

\* POST /api/sync with a body that is not JSON or has no array `items`:
\* request.json() or the `for` throws and the handler answers 500.
PostMalformed(r) ==
    /\ requests[r].pc = "idle"
    /\ requests' = [requests EXCEPT ![r].pc = "failed"]
    /\ UNCHANGED <<project, productionEntries, today, returned, tables, storeVars>>

\* No request is between its arrival and its response.
NoneInFlight ==
    \A q \in Requests : requests[q].pc \in {"idle", "responded", "failed"}

\* POST while no other request is between its arrival and its response.
PostAlone(r) ==
    /\ NoneInFlight
    /\ Post(r)

\* The head of `for (const item of data.items)` and the switch: a
\* production item and an inspection item issue their findFirst, any other
\* entity is answered at once.  Without item.payload the `where` of the
\* findFirst throws a TypeError, which the catch inside the loop reports.
NextItem(r) ==
    /\ requests[r].pc = "loop"
    /\ requests[r].left > 0
    /\ \E item \in SyncItems :
          requests' =
              IF item.entity \in {"production", "inspection"}
                    /\ "payload" \notin DOMAIN item
              THEN Pushed(r, [localId |-> item.localId, success |-> FALSE,
                              error |-> "Cannot read properties of undefined (reading 'localId')"])
              ELSE IF item.entity = "production"
              THEN [requests EXCEPT ![r].pc = "find", ![r].item = item]
              ELSE IF item.entity = "inspection"
              THEN [requests EXCEPT ![r].pc = "findInspection", ![r].item = item]
              ELSE Pushed(r, [localId |-> item.localId, success |-> FALSE,
                              error |-> "Unknown entity type"])
    /\ UNCHANGED <<project, productionEntries, today, returned, tables, storeVars>>

\* The result of an item whose row exists.
Duplicate(r, existing) ==
    [localId |-> requests[r].item.localId, success |-> TRUE, duplicate |-> TRUE,
     id |-> existing.id]

\* The result of an item whose row was created.
Created(r, row) ==
    [localId |-> requests[r].item.localId, success |-> TRUE, id |-> row.id]

\* The result of an item whose create() threw: error.message is Prisma's
\* report of the violated foreign key, of which this is the gist.
Failed(r) ==
    [localId |-> requests[r].item.localId, success |-> FALSE,
     error |-> "Foreign key constraint failed"]

\* The findFirst of syncProductionEntry resolves: an existing row is
\* reported as a duplicate, otherwise create() is issued.
FindFirst(r) ==
    /\ requests[r].pc = "find"
    /\ \E existing \in findFirst(productionEntryTable, requests[r].item.payload) :
          requests' =
              IF existing # NoRow
              THEN Pushed(r, Duplicate(r, existing))
              ELSE [requests EXCEPT ![r].pc = "create"]
    /\ UNCHANGED <<project, productionEntries, today, returned, tables, storeVars>>

\* The create of syncProductionEntry resolves with the new row, or throws
\* and the catch inside the loop reports the item as failed.
Create(r) ==
    /\ requests[r].pc = "create"
    /\ RowsCreated < MaxIds
    /\ LET payload == requests[r].item.payload
           entry == CreatedRow(idsIssued + 1, payload)
       IN  IF CreateAccepted(projectTable, userTable, payload)
           THEN /\ productionEntryTable' = Append(productionEntryTable, entry)
                /\ idsIssued' = idsIssued + 1
                /\ requests' = Pushed(r, Created(r, entry))
           ELSE /\ UNCHANGED <<productionEntryTable, idsIssued>>
                /\ requests' = Pushed(r, Failed(r))
    /\ UNCHANGED <<project, productionEntries, today, returned,
                   qCInspectionTable, parents, storeVars>>

\* The findFirst of syncInspection resolves.
InspectionFindFirst(r) ==
    /\ requests[r].pc = "findInspection"
    /\ \E existing \in findFirst(qCInspectionTable, requests[r].item.payload) :
          requests' =
              IF existing # NoRow
              THEN Pushed(r, Duplicate(r, existing))
              ELSE [requests EXCEPT ![r].pc = "createInspection"]
    /\ UNCHANGED <<project, productionEntries, today, returned, tables, storeVars>>

\* The create of syncInspection resolves or throws.
InspectionCreate(r) ==
    /\ requests[r].pc = "createInspection"
    /\ RowsCreated < MaxIds
    /\ LET payload == requests[r].item.payload
           inspection == CreatedRow(idsIssued + 1, payload)
       IN  IF CreateAccepted(projectTable, userTable, payload)
           THEN /\ qCInspectionTable' = Append(qCInspectionTable, inspection)
                /\ idsIssued' = idsIssued + 1
                /\ requests' = Pushed(r, Created(r, inspection))
           ELSE /\ UNCHANGED <<qCInspectionTable, idsIssued>>
                /\ requests' = Pushed(r, Failed(r))
    /\ UNCHANGED <<project, productionEntries, today, returned,
                   productionEntryTable, parents, storeVars>>

\* return NextResponse.json({ results })
Respond(r) ==
    /\ requests[r].pc = "loop"
    /\ requests[r].left = 0
    /\ requests' = [requests EXCEPT ![r].pc = "responded"]
    /\ UNCHANGED <<project, productionEntries, today, returned, tables, storeVars>>

\* POST /api/production: create() without a lookup; when it throws the
\* handler answers 500 and the table is as before.
PostProduction(data) ==
    /\ RowsCreated < MaxIds
    /\ IF CreateAccepted(projectTable, userTable, data)
       THEN /\ productionEntryTable' =
                   Append(productionEntryTable, CreatedRow(idsIssued + 1, data))
            /\ idsIssued' = idsIssued + 1
       ELSE UNCHANGED <<productionEntryTable, idsIssued>>
    /\ UNCHANGED <<project, productionEntries, today, returned, qCInspectionTable,
                   parents, requests, storeVars>>

\* DELETE /api/production?id=: delete({ where: { id } }) removes the row
\* (without the id the handler answers 400, for an id of no row delete()
\* throws and it answers 500: the table is as before).
DeleteProduction(id) ==
    /\ productionEntryTable' =
           Without(productionEntryTable, {id})
    /\ UNCHANGED <<project, productionEntries, today, returned, qCInspectionTable,
                   parents, idsIssued, requests, storeVars>>

\* POST /api/inspections: create() of a row without localId and deviceId.
PostInspection(data) ==
    /\ RowsCreated < MaxIds
    /\ IF CreateAccepted(projectTable, userTable, data)
       THEN /\ qCInspectionTable' =
                   Append(qCInspectionTable,
                          CreatedRow(idsIssued + 1,
                                     [localId |-> Absent, deviceId |-> Absent,
                                      projectId |-> data.projectId,
                                      userId |-> data.userId]))
            /\ idsIssued' = idsIssued + 1
       ELSE UNCHANGED <<qCInspectionTable, idsIssued>>
    /\ UNCHANGED <<project, productionEntries, today, returned,
                   productionEntryTable, parents, requests, storeVars>>

\* DELETE /api/projects?id=: the project goes, and with it (ON DELETE
\* CASCADE) its production entries and its inspections.
DeleteProject(id) ==
    /\ projectTable' = projectTable \ {id}
    /\ productionEntryTable' =
           Without(productionEntryTable,
                   Referencing(productionEntryTable, "projectId", projectTable, id))
    /\ qCInspectionTable' =
           Without(qCInspectionTable,
                   Referencing(qCInspectionTable, "projectId", projectTable, id))
    /\ UNCHANGED <<project, productionEntries, today, returned, userTable,
                   projectIdsIssued, idsIssued, requests, storeVars>>

\* DELETE /api/users?id=: the user goes, and with it (ON DELETE CASCADE)
\* its production entries and its inspections.  (The delete of a user who
\* reported a pile refusal is refused, ON DELETE RESTRICT, and changes
\* nothing.)
DeleteUser(id) ==
    /\ userTable' = userTable \ {id}
    /\ productionEntryTable' =
           Without(productionEntryTable,
                   Referencing(productionEntryTable, "userId", userTable, id))
    /\ qCInspectionTable' =
           Without(qCInspectionTable,
                   Referencing(qCInspectionTable, "userId", userTable, id))
    /\ UNCHANGED <<project, productionEntries, today, returned, projectTable,
                   projectIdsIssued, idsIssued, requests, storeVars>>

\* POST /api/projects: create() of a project under its new id (when
\* create() throws, on a body without a name or of a company that does not
\* exist, the handler answers 500 and the table is as before).
PostProject ==
    /\ RowsCreated < MaxIds
    /\ projectIdsIssued < Len(NewProjectIds)
    /\ projectTable' = projectTable \cup {NewProjectIds[projectIdsIssued + 1]}
    /\ projectIdsIssued' = projectIdsIssued + 1
    /\ UNCHANGED <<project, productionEntries, today, returned,
                   productionEntryTable, qCInspectionTable, idsIssued, userTable,
                   requests, storeVars>>

\* POST /api/users: the data of create() always carry `active` (data.active
\* ?? true, users/route.ts:58), which is no field of User (its column is
\* isActive, part_000:21).  Prisma refuses the unknown argument before any
\* query, create() throws, the handler answers 500 and no table changes.
PostUser == UNCHANGED vars

\* A request of one of the handlers that query the database once.
Single ==
    \/ \E data \in Payloads : PostProduction(data)
    \/ \E id \in 1..MaxIds : DeleteProduction(id)
    \/ \E data \in InspectionBodies : PostInspection(data)
    \/ \E id \in ProjectIds : DeleteProject(id)
    \/ \E id \in UserIds : DeleteUser(id)
    \/ PostProject
    \/ PostUser

InitSync ==
    /\ LibraryAtRest
    /\ ServerAtRest
    /\ StoreAtRest

\* Requests handled concurrently: every await is a point where another
\* request may run.
NextSync ==
    \/ \E r \in Requests :
          \/ Post(r) \/ PostMalformed(r) \/ NextItem(r) \/ Respond(r)
          \/ FindFirst(r) \/ Create(r)
          \/ InspectionFindFirst(r) \/ InspectionCreate(r)
    \/ Single

SpecSync == InitSync /\ [][NextSync]_vars

\* Requests handled one after another.
NextSyncSerial ==
    \/ \E r \in Requests :
          \/ PostAlone(r) \/ (NoneInFlight /\ PostMalformed(r))
          \/ NextItem(r) \/ Respond(r)
          \/ FindFirst(r) \/ Create(r)
          \/ InspectionFindFirst(r) \/ InspectionCreate(r)
    \/ (NoneInFlight /\ Single)

SpecSyncSerial == InitSync /\ [][NextSyncSerial]_vars

-----
(* Behaviours of the client store *)

\* addToOfflineQueue(item)
AddToOfflineQueue(item) ==
    /\ Len(offlineQueue) < MaxQueue
    /\ pendingSyncCount < MaxQueue
    /\ offlineQueue' = Append(offlineQueue, item)
    /\ pendingSyncCount' = pendingSyncCount + 1
    /\ UNCHANGED <<project, productionEntries, today, returned, serverVars>>

\* removeFromOfflineQueue(id)
RemoveFromOfflineQueue(id) ==
    /\ offlineQueue' = SelectSeq(offlineQueue, LAMBDA item : item.id # id)
    /\ pendingSyncCount' = Max(0, pendingSyncCount - 1)
    /\ UNCHANGED <<project, productionEntries, today, returned, serverVars>>

\* setPendingSyncCount(count)
SetPendingSyncCount(count) ==
    /\ pendingSyncCount' = count
    /\ UNCHANGED <<project, productionEntries, today, returned, serverVars,
                   offlineQueue>>

\* reset(): set(initialState)
Reset ==
    /\ offlineQueue' = <<>>
    /\ pendingSyncCount' = 0
    /\ UNCHANGED <<project, productionEntries, today, returned, serverVars>>

InitStore == InitSync

NextStore ==
    \/ \E item \in OfflineQueueItems : AddToOfflineQueue(item)
    \/ \E id \in QueueIds : RemoveFromOfflineQueue(id)
    \/ \E count \in 0..MaxQueue : SetPendingSyncCount(count)
    \/ Reset

SpecStore == InitStore /\ [][NextStore]_vars

-----------------------------------------------------------------------------
(* What the properties below speak of, stated from the inputs alone *)

Forecasted == returned.op = "calculateForecast"

PercentReturned == returned.op = "getPercentComplete"

forecast == returned.value

percent == returned.value

\* The least whole number of days that is no less than t seconds.
WholeDays(t) ==
    CHOOSE n \in (t \div SecondsPerDay)..(t \div SecondsPerDay + 1) :
        t <= n * SecondsPerDay /\ n * SecondsPerDay < t + SecondsPerDay

PlanTotalDays ==
    LET n == WholeDays(project.plannedEndDate - project.plannedStartDate)
    IN  IF n < 1 THEN 1 ELSE n

PlanDaysElapsed ==
    LET n == WholeDays(today - project.plannedStartDate)
    IN  IF n < 0 THEN 0 ELSE n

InstalledPiles ==
    LET f[i \in 0..Len(productionEntries)] ==
            IF i = 0 THEN 0 ELSE f[i - 1] + productionEntries[i].piles
    IN  f[Len(productionEntries)]

InstalledRacking ==
    LET f[i \in 0..Len(productionEntries)] ==
            IF i = 0 THEN 0 ELSE f[i - 1] + productionEntries[i].rackingTables
    IN  f[Len(productionEntries)]

InstalledModules ==
    LET f[i \in 0..Len(productionEntries)] ==
            IF i = 0 THEN 0 ELSE f[i - 1] + productionEntries[i].modules
    IN  f[Len(productionEntries)]

\* x (a rational) equals n / d.
RatIs(x, n, d) == x.den > 0 /\ x.num * d = n * x.den

-----------------------------------------------------------------------------
(* C1 *)

\* C1 as stated, and only for the plans the caller is meant to pass
\* (plannedStartDate <= plannedEndDate): plannedProgress, actualProgress and
\* dates all have the length min(daysElapsed, totalDays) + 1.
C1_ParallelArrays ==
    (Forecasted /\ project.plannedStartDate <= project.plannedEndDate) =>
        /\ Len(forecast.plannedProgress) = Min(PlanDaysElapsed, PlanTotalDays) + 1
        /\ Len(forecast.actualProgress) = Min(PlanDaysElapsed, PlanTotalDays) + 1
        /\ Len(forecast.dates) = Min(PlanDaysElapsed, PlanTotalDays) + 1

\* C1 amended: actualProgress and dates are parallel arrays of length
\* min(daysElapsed, totalDays) + 1; plannedProgress always has length
\* totalDays + 1, so it is at least as long and has the same length exactly
\* when daysElapsed >= totalDays.
C1_ChartLengths ==
    Forecasted =>
        /\ Len(forecast.actualProgress) = Min(PlanDaysElapsed, PlanTotalDays) + 1
        /\ Len(forecast.dates) = Len(forecast.actualProgress)
        /\ Len(forecast.plannedProgress) = PlanTotalDays + 1
        /\ Len(forecast.plannedProgress) >= Len(forecast.actualProgress)
        /\ (Len(forecast.plannedProgress) = Len(forecast.actualProgress)
              <=> PlanDaysElapsed >= PlanTotalDays)

\* A forecast made part-way through a plan of two days: the planned curve
\* is longer than the actual one.
C1_Witness ==
    /\ Forecasted
    /\ PlanTotalDays = 2
    /\ PlanDaysElapsed = 1
    /\ Len(forecast.actualProgress) = 2
    /\ Len(forecast.plannedProgress) = 3

-----------------------------------------------------------------------------
(* C2 *)

\* C2: each category of remainingWork is max(0, target - installed), never
\* negative, and 0 whenever the installed sum exceeds the target.
C2_RemainingWork ==
    Forecasted =>
        LET r == forecast.remainingWork
        IN  /\ r.piles = Max(0, project.totalPiles - InstalledPiles)
            /\ r.racking = Max(0, project.totalRackingTables - InstalledRacking)
            /\ r.modules = Max(0, project.totalModules - InstalledModules)
            /\ r.piles >= 0 /\ r.racking >= 0 /\ r.modules >= 0
            /\ (InstalledPiles > project.totalPiles => r.piles = 0)
            /\ (InstalledRacking > project.totalRackingTables => r.racking = 0)
            /\ (InstalledModules > project.totalModules => r.modules = 0)

\* Modules and piles overproduced, racking still short of its target.
C2_Witness ==
    /\ Forecasted
    /\ InstalledModules > project.totalModules
    /\ InstalledPiles > project.totalPiles
    /\ forecast.remainingWork.modules = 0
    /\ forecast.remainingWork.piles = 0
    /\ forecast.remainingWork.racking = 1

-----------------------------------------------------------------------------
(* C3 *)

\* C3: scheduleHealth is green exactly when daysVariance <= 0, yellow
\* exactly when 0 < daysVariance <= 7, red exactly when daysVariance > 7.
C3_HealthFromVariance ==
    Forecasted =>
        LET v == forecast.daysVariance
            h == forecast.scheduleHealth
        IN  /\ h \in {"green", "yellow", "red"}
            /\ (h = "green" <=> v <= 0)
            /\ (h = "yellow" <=> (0 < v /\ v <= 7))
            /\ (h = "red" <=> v > 7)

\* The boundary of one week: a variance of exactly 7 days is yellow.
C3_Witness ==
    /\ Forecasted
    /\ forecast.daysVariance = 7
    /\ forecast.scheduleHealth = "yellow"

-----------------------------------------------------------------------------
(* C4 *)

\* C4: with a positive average daily module production and modules
\* remaining, daysNeeded is Math.ceil of the quotient of the remaining
\* modules by the average, the least whole number that the double
\* remaining / average does not exceed (the double is within one of the
\* exact quotient), projectedCompletionDate is today plus daysNeeded days,
\* and daysVariance is the day difference, rounded up, between
\* projectedCompletionDate and plannedEndDate.
C4_Projection ==
    (/\ Forecasted
     /\ forecast.averageDailyProduction.modules.num > 0
     /\ forecast.remainingWork.modules > 0) =>
        LET avg   == forecast.averageDailyProduction.modules
            rem   == forecast.remainingWork.modules
            exact == Ceil(rem * avg.den, avg.num)
            AtMost(n) == QuotientAtMost(rem, DoubleOfRatio(avg.num, avg.den), n)
            need  == CHOOSE n \in Max(1, exact - 1)..(exact + 1) :
                         /\ AtMost(n)
                         /\ n > 1 => ~AtMost(n - 1)
        IN  /\ forecast.projectedCompletionDate = DateAt(today + need * SecondsPerDay)
            /\ forecast.daysVariance
                 = WholeDays(forecast.projectedCompletionDate.time - project.plannedEndDate)

\* 17 modules remain at 17 / 7 modules a day: the average is the double
\* 2.4285714285714284 and 17 / 2.4285714285714284 is 7.000000000000001, so
\* daysNeeded is 8.  From noon of 8 January the projected date is noon of
\* 16 January, a day and a half, so 2 days, after the planned end.
C4_Witness ==
    /\ Forecasted
    /\ forecast.remainingWork.modules = 17
    /\ RatIs(forecast.averageDailyProduction.modules, 17, 7)
    /\ today = UTC(2024, 1, 8, HalfDay)
    /\ project.plannedEndDate = UTC(2024, 1, 15, 0)
    /\ forecast.projectedCompletionDate = DateAt(UTC(2024, 1, 16, HalfDay))
    /\ forecast.daysVariance = 2

-----------------------------------------------------------------------------
(* C5 *)

\* C5 as stated: when no modules remain, projectedCompletionDate is today
\* and daysVariance is the day difference between today and plannedEndDate,
\* negative whenever today is before plannedEndDate.
C5_TargetMetNegative ==
    (Forecasted /\ InstalledModules >= project.totalModules) =>
        /\ forecast.projectedCompletionDate = DateAt(today)
        /\ forecast.daysVariance = WholeDays(today - project.plannedEndDate)
        /\ (today < project.plannedEndDate => forecast.daysVariance < 0)

\* C5 amended: when no modules remain (whatever the average production),
\* projectedCompletionDate is today and daysVariance is the day difference
\* between today and plannedEndDate rounded up: it is negative exactly when
\* today is at least one whole day before plannedEndDate, and 0 when today
\* is less than a day before it.
C5_TargetMet ==
    (Forecasted /\ InstalledModules >= project.totalModules) =>
        /\ forecast.remainingWork.modules = 0
        /\ forecast.projectedCompletionDate = DateAt(today)
        /\ forecast.daysVariance = WholeDays(today - project.plannedEndDate)
        /\ (forecast.daysVariance < 0
              <=> today + SecondsPerDay <= project.plannedEndDate)
        /\ ((today < project.plannedEndDate
               /\ project.plannedEndDate < today + SecondsPerDay)
              => forecast.daysVariance = 0)

\* The module target is exceeded at a positive average rate, half a day
\* before the planned end: the variance is 0, not negative.
C5_Witness ==
    /\ Forecasted
    /\ project.totalModules > 0
    /\ InstalledModules > project.totalModules
    /\ forecast.averageDailyProduction.modules.num > 0
    /\ project.plannedEndDate - today = HalfDay
    /\ forecast.projectedCompletionDate = DateAt(today)
    /\ forecast.daysVariance = 0

-----------------------------------------------------------------------------
(* C6 *)

\* C6: when the average daily module production is 0 and modules remain,
\* projectedCompletionDate is null and daysVariance is 0;
\* projectedCompletionDate is null in no other case.
C6_NoRate ==
    Forecasted =>
        LET noRate == /\ forecast.averageDailyProduction.modules.num = 0
                      /\ InstalledModules < project.totalModules
        IN  /\ (noRate => forecast.daysVariance = 0)
            /\ (forecast.projectedCompletionDate = Null <=> noRate)

\* Entries exist but none installed a module, the target is not met, and
\* today is past the planned end: no projection, no variance.
C6_Witness ==
    /\ Forecasted
    /\ Len(productionEntries) > 0
    /\ InstalledModules = 0
    /\ project.totalModules > 0
    /\ today > project.plannedEndDate + SecondsPerDay
    /\ forecast.projectedCompletionDate = Null
    /\ forecast.daysVariance = 0

-----------------------------------------------------------------------------
(* C7 *)

\* The entries in ascending date order, entries of one date in input order.
InDateOrder == sortedEntries(productionEntries)

\* The number of entries the rolling window holds.
WindowSize == Min(Len(productionEntries), RecentWindow)

\* The sum of a category over the last WindowSize entries in date order.
WindowPiles ==
    LET s == InDateOrder
        f[i \in 0..WindowSize] ==
            IF i = 0 THEN 0 ELSE f[i - 1] + s[Len(s) - i + 1].piles
    IN  f[WindowSize]

WindowRacking ==
    LET s == InDateOrder
        f[i \in 0..WindowSize] ==
            IF i = 0 THEN 0 ELSE f[i - 1] + s[Len(s) - i + 1].rackingTables
    IN  f[WindowSize]

WindowModules ==
    LET s == InDateOrder
        f[i \in 0..WindowSize] ==
            IF i = 0 THEN 0 ELSE f[i - 1] + s[Len(s) - i + 1].modules
    IN  f[WindowSize]

\* C7: with at least one entry, each category of averageDailyProduction is
\* the sum of the category over the last 7 entries in ascending date order
\* (all entries when there are fewer than 7) divided by the number of those
\* entries; entries are counted, not calendar days.
C7_RollingAverage ==
    (Forecasted /\ Len(productionEntries) > 0) =>
        LET avg == forecast.averageDailyProduction
        IN  /\ RatIs(avg.piles, WindowPiles, WindowSize)
            /\ RatIs(avg.racking, WindowRacking, WindowSize)
            /\ RatIs(avg.modules, WindowModules, WindowSize)

\* More than 7 entries on two calendar days only; the entry that falls out
\* of the window is a module report, so the window's mean differs from the
\* mean over all entries.
C7_Witness ==
    /\ Forecasted
    /\ Len(productionEntries) = RecentWindow + 1
    /\ InstalledModules = 3
    /\ WindowModules = 2
    /\ RatIs(forecast.averageDailyProduction.modules, 2, 7)
    /\ RatIs(forecast.averageDailyProduction.piles, 10, 7)

-----------------------------------------------------------------------------
(* C8 *)

\* C8: with an empty entry list, averageDailyProduction is the project's
\* planned daily rates, remainingWork is the three targets, and
\* projectedCompletionDate is not null whenever plannedModulesPerDay is
\* nonzero.
C8_EmptyList ==
    (Forecasted /\ productionEntries = <<>>) =>
        /\ RatIs(forecast.averageDailyProduction.piles, project.plannedPilesPerDay, 1)
        /\ RatIs(forecast.averageDailyProduction.racking, project.plannedRackingPerDay, 1)
        /\ RatIs(forecast.averageDailyProduction.modules, project.plannedModulesPerDay, 1)
        /\ forecast.remainingWork.piles = project.totalPiles
        /\ forecast.remainingWork.racking = project.totalRackingTables
        /\ forecast.remainingWork.modules = project.totalModules
        /\ (project.plannedModulesPerDay # 0
              => forecast.projectedCompletionDate # Null)

\* No entries, a nonzero planned module rate and modules to install: the
\* projection comes from the planned rate.
C8_Witness ==
    /\ Forecasted
    /\ productionEntries = <<>>
    /\ project.plannedModulesPerDay = 1
    /\ project.totalModules = MaxTarget
    /\ project.totalRackingTables = 2
    /\ forecast.projectedCompletionDate = DateAt(today + MaxTarget * SecondsPerDay)

-----------------------------------------------------------------------------
(* C9 *)

Zero == [num |-> 0, den |-> 1]

\* C9 as stated: with totalModules = 0, every percentage returned by
\* getPercentComplete and every element of actualProgress is 0.
C9_AllZero ==
    project.totalModules = 0 =>
        /\ PercentReturned =>
              /\ percent.piles = Zero
              /\ percent.racking = Zero
              /\ percent.modules = Zero
              /\ percent.overall = Zero
        /\ Forecasted =>
              \A k \in DOMAIN forecast.actualProgress :
                  forecast.actualProgress[k] = Zero

\* C9 amended: with totalModules = 0, the modules percentage returned by
\* getPercentComplete and every element of actualProgress is 0; the piles
\* and the racking percentage is 0 when its own target is 0, and overall
\* is 0 when no piles and no racking are installed.  (Piles, racking and
\* overall are not 0 in general: they follow the piles and racking
\* installed against their own targets.)
C9_ZeroModuleTarget ==
    project.totalModules = 0 =>
        /\ PercentReturned =>
              /\ percent.modules = Zero
              /\ (project.totalPiles = 0 => percent.piles = Zero)
              /\ (project.totalRackingTables = 0 => percent.racking = Zero)
              /\ ((InstalledPiles = 0 /\ InstalledRacking = 0)
                     => percent.overall = Zero)
        /\ Forecasted =>
              \A k \in DOMAIN forecast.actualProgress :
                  forecast.actualProgress[k] = Zero

\* Modules were installed against a module target of 0 on a day of the
\* chart: the curve stays at 0.
C9_Witness ==
    /\ Forecasted
    /\ project.totalModules = 0
    /\ InstalledModules > 0
    /\ Len(forecast.actualProgress) >= 2
    /\ \E i \in DOMAIN productionEntries :
          /\ productionEntries[i].modules > 0
          /\ ISODate(productionEntries[i].date) \in
                {forecast.dates[k] : k \in DOMAIN forecast.dates}
    /\ \A k \in DOMAIN forecast.actualProgress : forecast.actualProgress[k] = Zero

-----------------------------------------------------------------------------
(* C10 *)

\* C10: plannedProgress[0] is 0, plannedProgress[i] is i / totalDays * 100
\* at every index i present, and when daysElapsed >= totalDays the array
\* has an element at index totalDays, which is 100.
C10_PlannedCurve ==
    Forecasted =>
        LET planned == forecast.plannedProgress
        IN  /\ Len(planned) >= 1
            /\ planned[1] = Zero
            /\ \A k \in DOMAIN planned :
                  RatIs(planned[k], (k - 1) * 100, PlanTotalDays)
            /\ (PlanDaysElapsed >= PlanTotalDays =>
                  /\ PlanTotalDays + 1 \in DOMAIN planned
                  /\ RatIs(planned[PlanTotalDays + 1], 100, 1))

\* The plan of two days is over: the curve is 0, 50, 100.
C10_Witness ==
    /\ Forecasted
    /\ PlanTotalDays = 2
    /\ PlanDaysElapsed >= PlanTotalDays
    /\ forecast.plannedProgress
         = <<Zero, [num |-> 50, den |-> 1], [num |-> 100, den |-> 1]>>

-----------------------------------------------------------------------------
(* C11 *)

\* The number of the calendar day that holds instant t (1970-01-01 is 0).
DayNumber(t) == t \div SecondsPerDay

\* The last offset of the actual curve.
LastOffset == Min(PlanDaysElapsed, PlanTotalDays)

\* The modules of all entries whose calendar date lies between the planned
\* start's and i days after it.
InstalledThrough(i) ==
    LET first == DayNumber(project.plannedStartDate)
        f[k \in 0..Len(productionEntries)] ==
            IF k = 0 THEN 0
            ELSE f[k - 1]
                 + (IF /\ first <= DayNumber(productionEntries[k].date)
                       /\ DayNumber(productionEntries[k].date) <= first + i
                    THEN productionEntries[k].modules
                    ELSE 0)
    IN  f[Len(productionEntries)]

\* C11: every element of actualProgress lies between 0 and 100, also when
\* the modules installed so far exceed the project's totalModules.
C11_ProgressBounded ==
    Forecasted =>
        \A k \in DOMAIN forecast.actualProgress :
            LET x == forecast.actualProgress[k]
            IN  /\ x.den > 0
                /\ 0 <= x.num
                /\ x.num <= 100 * x.den

\* A forecast whose curve reaches a day by which more modules are installed
\* than the project has, and shows 100 there.
C11_Witness ==
    /\ Forecasted
    /\ project.totalModules > 0
    /\ \E i \in 0..LastOffset :
          /\ InstalledThrough(i) > project.totalModules
          /\ RatIs(forecast.actualProgress[i + 1], 100, 1)

-----------------------------------------------------------------------------
(* C12 *)

\* C12: with a positive module target, the actual curve at offset i, for
\* i from 0 to min(daysElapsed, totalDays), is min(100, S / totalModules *
\* 100), S being the modules of all entries whose calendar date lies from
\* the planned start to i days after it; entries sharing a date all count.
C12_CumulativeProgress ==
    (Forecasted /\ project.totalModules > 0) =>
        /\ Len(forecast.actualProgress) = LastOffset + 1
        /\ \A i \in 0..LastOffset :
              IF InstalledThrough(i) >= project.totalModules
              THEN RatIs(forecast.actualProgress[i + 1], 100, 1)
              ELSE RatIs(forecast.actualProgress[i + 1],
                         InstalledThrough(i) * 100, project.totalModules)

\* A forecast over two module entries of the same calendar date, both
\* counted on that date: 2 of 4 modules, 50 percent.
C12_Witness ==
    /\ Forecasted
    /\ project.totalModules = 4
    /\ Len(productionEntries) = 2
    /\ productionEntries[1].modules = 1
    /\ productionEntries[2].modules = 1
    /\ DayNumber(productionEntries[1].date) = DayNumber(productionEntries[2].date)
    /\ \E i \in 0..LastOffset :
          /\ InstalledThrough(i) = 2
          /\ RatIs(forecast.actualProgress[i + 1], 50, 1)

-----------------------------------------------------------------------------
(* C13 *)

\* The modules of the entries dated before the first or after the last
\* calendar date of the actual curve.
InstalledOutside ==
    LET first == DayNumber(project.plannedStartDate)
        f[k \in 0..Len(productionEntries)] ==
            IF k = 0 THEN 0
            ELSE f[k - 1]
                 + (IF \/ DayNumber(productionEntries[k].date) < first
                       \/ DayNumber(productionEntries[k].date) > first + LastOffset
                    THEN productionEntries[k].modules
                    ELSE 0)
    IN  f[Len(productionEntries)]

\* C13: remainingWork subtracts the sums over all entries, those dated
\* before the planned start, after the planned end or after today included,
\* while the actual curve ends at the modules of the entries dated inside
\* the window it frames.
C13_AllEntriesRemaining ==
    Forecasted =>
        LET inside == InstalledThrough(LastOffset)
            all    == inside + InstalledOutside
        IN  /\ forecast.remainingWork.modules
                  = (IF all >= project.totalModules THEN 0
                     ELSE project.totalModules - all)
            /\ forecast.remainingWork.piles
                  = (IF InstalledPiles >= project.totalPiles THEN 0
                     ELSE project.totalPiles - InstalledPiles)
            /\ forecast.remainingWork.racking
                  = (IF InstalledRacking >= project.totalRackingTables THEN 0
                     ELSE project.totalRackingTables - InstalledRacking)
            /\ project.totalModules > 0 =>
                  RatIs(forecast.actualProgress[LastOffset + 1],
                        Min(inside, project.totalModules) * 100,
                        project.totalModules)

\* A forecast over one entry dated before the planned start and one dated
\* after the planned end and after today: both reduce the remaining modules
\* and neither raises the curve.
C13_Witness ==
    /\ Forecasted
    /\ project.totalModules = 4
    /\ project.plannedStartDate <= project.plannedEndDate
    /\ \E j, k \in DOMAIN productionEntries :
          /\ productionEntries[j].date < project.plannedStartDate
          /\ productionEntries[j].modules = 1
          /\ productionEntries[k].date > project.plannedEndDate
          /\ productionEntries[k].date > today
          /\ productionEntries[k].modules = 1
    /\ InstalledThrough(LastOffset) = 0
    /\ forecast.remainingWork.modules = 2
    /\ RatIs(forecast.actualProgress[LastOffset + 1], 0, 1)

-----------------------------------------------------------------------------
(* C14 *)

\* The exact percentage of a category, as numerator and denominator:
\* total / target * 100, or 0 when the target is 0.
ExactPercent(total, target) ==
    IF target > 0 THEN <<total * 100, target>> ELSE <<0, 1>>

ExactPiles == ExactPercent(InstalledPiles, project.totalPiles)

ExactRacking == ExactPercent(InstalledRacking, project.totalRackingTables)

ExactModules == ExactPercent(InstalledModules, project.totalModules)

\* piles% * 0.15 + racking% * 0.25 + modules% * 0.60 of the exact
\* percentages, as numerator and denominator.
ExactOverall ==
    <<15 * ExactPiles[1] * ExactRacking[2] * ExactModules[2]
        + 25 * ExactRacking[1] * ExactPiles[2] * ExactModules[2]
        + 60 * ExactModules[1] * ExactPiles[2] * ExactRacking[2],
      100 * ExactPiles[2] * ExactRacking[2] * ExactModules[2]>>

\* |a - b|
Distance(a, b) == IF a >= b THEN a - b ELSE b - a

\* x (a rational) is within one twentieth of q[1] / q[2].
Reports(x, q) ==
    /\ x.den > 0
    /\ 20 * Distance(x.num * q[2], q[1] * x.den) <= x.den * q[2]

\* The entry list in reverse order, every entry dated d.
Rearranged(d) ==
    [k \in 1..Len(productionEntries) |->
        [productionEntries[Len(productionEntries) + 1 - k] EXCEPT !.date = d]]

\* C14: getPercentComplete reports, to the decimal it returns, overall =
\* piles% * 0.15 + racking% * 0.25 + modules% * 0.60, each category
\* percentage being the sum over the entire list / target * 100, or 0 for a
\* target of 0; the entries' dates and order do not change the result.
C14_WeightedOverall ==
    PercentReturned =>
        /\ Reports(percent.piles, ExactPiles)
        /\ Reports(percent.racking, ExactRacking)
        /\ Reports(percent.modules, ExactModules)
        /\ Reports(percent.overall, ExactOverall)
        /\ \A d \in EntryDates :
              getPercentComplete(project, Rearranged(d)) = percent

\* Percentages of a list that is not in date order, with every category
\* under way and the piles past their target: 200, 50 and 25 percent give
\* 30 + 12.5 + 15 = 57.5 overall.
C14_Witness ==
    /\ PercentReturned
    /\ Len(productionEntries) = 2
    /\ productionEntries[1].date > productionEntries[2].date
    /\ RatIs(percent.piles, 200, 1)
    /\ RatIs(percent.racking, 50, 1)
    /\ RatIs(percent.modules, 25, 1)
    /\ RatIs(percent.overall, 575, 10)

-----------------------------------------------------------------------------
(* C15 *)

\* x (a rational) is n / 10 for an integer n nearest to ten times
\* q[1] / q[2].
RoundedToTenth(x, q) ==
    /\ x.den > 0
    /\ (10 * x.num) % x.den = 0
    /\ LET n == (10 * x.num) \div x.den
       IN  2 * Distance(n * q[2], 10 * q[1]) <= q[2]

\* C15: every value getPercentComplete returns is a whole number of tenths,
\* the nearest to the exact percentage; overall is rounded once, from the
\* weighted sum of the unrounded category percentages.
C15_OneDecimal ==
    PercentReturned =>
        /\ RoundedToTenth(percent.piles, ExactPiles)
        /\ RoundedToTenth(percent.racking, ExactRacking)
        /\ RoundedToTenth(percent.modules, ExactModules)
        /\ RoundedToTenth(percent.overall, ExactOverall)

\* Percentages where the two ways of rounding part: 4 piles of 1, 2 racking
\* tables of 7 and no module target give 400, 28.571... and 0 percent, so
\* 67.142... overall, returned as 67.1; weighing the rounded 28.6 would give
\* 67.15, returned as 67.2.
C15_Witness ==
    /\ PercentReturned
    /\ project.totalRackingTables = 7
    /\ InstalledRacking = 2
    /\ project.totalModules = 0
    /\ RatIs(percent.piles, 400, 1)
    /\ RatIs(percent.racking, 286, 10)
    /\ RatIs(percent.overall, 671, 10)

-----------------------------------------------------------------------------
(* C16 *)

StatsReturned == returned.op = "getProductionStats"

stats == returned.value

\* The number of days of month m of year y.
DaysInMonth(y, m) ==
    IF m = 12 THEN 31 ELSE DaysFromCivil(y, m + 1, 1) - DaysFromCivil(y, m, 1)

\* One calendar month before instant t: the same time of day on the same
\* day number of the previous month, or on that month's last day when it is
\* shorter.
CalendarMonthBefore(t) ==
    LET c == CivilFromDays(DayNumber(t))
        y == IF c.month = 1 THEN c.year - 1 ELSE c.year
        m == IF c.month = 1 THEN 12 ELSE c.month - 1
    IN  UTC(y, m, Min(c.day, DaysInMonth(y, m)), t % SecondsPerDay)

\* Where the window of a period starts.
WindowStart(type) ==
    CASE type = "today" -> DayNumber(today) * SecondsPerDay
      [] type = "week"  -> today - 7 * SecondsPerDay
      [] type = "month" -> CalendarMonthBefore(today)

\* The sums, per category, over the entries dated at or after instant t.
SumsSince(t) ==
    LET f[k \in 0..Len(productionEntries)] ==
            IF k = 0 THEN [piles |-> 0, racking |-> 0, modules |-> 0]
            ELSE IF productionEntries[k].date >= t
                 THEN [piles   |-> f[k - 1].piles + productionEntries[k].piles,
                       racking |-> f[k - 1].racking
                                      + productionEntries[k].rackingTables,
                       modules |-> f[k - 1].modules + productionEntries[k].modules]
                 ELSE f[k - 1]
    IN  f[Len(productionEntries)]

\* C16: getProductionStats returns, per category, the sum over exactly the
\* entries dated at or after the start of the period's window: midnight of
\* today, today minus 7 days, or today minus one calendar month; entries
\* dated after today are included.
C16_StatsWindow ==
    StatsReturned => stats = SumsSince(WindowStart(returned.type))

-----------------------------------------------------------------------------
(* C18 *)

\* C18: no call of calculateForecast, getPercentComplete or
\* getProductionStats changes the project record or the entry list, neither
\* its contents nor its order.
C18_InputsUnchanged ==
    [][project' = project /\ productionEntries' = productionEntries]_vars

\* A forecast returned for a list that is not in date order, the list
\* calculateForecast has to sort.
C18_Witness ==
    /\ Forecasted
    /\ \E j, k \in DOMAIN productionEntries :
          j < k /\ productionEntries[j].date > productionEntries[k].date

-----------------------------------------------------------------------------
(* C19 *)

\* The scenario's project, evaluated on 2024-01-06 on a list of 500
\* modules, every entry dated 2024-01-06.
Halfway ==
    /\ project \in ScenarioProjects
    /\ today = UTC(2024, 1, 6, 0)
    /\ InstalledModules = 500
    /\ \A k \in DOMAIN productionEntries :
          DayNumber(productionEntries[k].date) = DayNumber(today)

\* What the scenario yields whatever the list: 5 days elapsed, a curve up to
\* 2024-01-06, 500 modules remaining, 50 percent actual and planned.
HalfwayProgress ==
    /\ daysElapsed(project, today) = 5
    /\ Len(forecast.dates) = 6
    /\ forecast.dates[6] = <<2024, 1, 6>>
    /\ forecast.remainingWork.modules = 500
    /\ RatIs(forecast.actualProgress[6], 50, 1)
    /\ RatIs(forecast.plannedProgress[6], 50, 1)

\* C19 as stated, for any list of the scenario: days elapsed, remaining
\* modules and both curves as above, a daysVariance that is not positive
\* and green health.
C19_HalfwayAnyList ==
    (Forecasted /\ Halfway) =>
        /\ HalfwayProgress
        /\ forecast.daysVariance <= 0
        /\ forecast.scheduleHealth = "green"

\* C19: in the scenario, days elapsed, remaining modules and both curves
\* are as stated for any list; a list of at most 5 entries gives a
\* daysVariance of its length minus 5, which is not positive, and green
\* health; a list of 6 or 7 entries gives 1 or 2 and yellow health.
C19_HalfwayScenario ==
    (Forecasted /\ Halfway) =>
        /\ HalfwayProgress
        /\ Len(productionEntries) <= RecentWindow =>
              forecast.daysVariance = Len(productionEntries) - 5
        /\ Len(productionEntries) <= 5 => forecast.scheduleHealth = "green"
        /\ Len(productionEntries) \in 6..RecentWindow =>
              forecast.scheduleHealth = "yellow"

\* The scenario on seven entries, four of 50 modules and three of 100: the
\* average is the double 500 / 7, the remaining 500 modules divided by it
\* are exactly 7 days, and completion is projected two days after the
\* planned end date.
C19_Witness ==
    /\ Forecasted
    /\ Halfway
    /\ Len(productionEntries) = 7
    /\ \A k \in DOMAIN productionEntries :
          productionEntries[k].modules \in {50, 100}
    /\ forecast.projectedCompletionDate =
           DateAt(AddDays(project.plannedEndDate, 2))
    /\ forecast.daysVariance = 2
    /\ forecast.scheduleHealth = "yellow"

-----------------------------------------------------------------------------
(* C20 *)

\* The scenario's project, evaluated on day 8 on a list of 100 modules,
\* every entry dated no later than day 8.
Behind ==
    /\ project \in ScenarioProjects
    /\ DayNumber(today) = DayNumber(project.plannedStartDate) + 8
    /\ InstalledModules = 100
    /\ \A k \in DOMAIN productionEntries :
          DayNumber(productionEntries[k].date) <= DayNumber(today)

\* Completion is projected after the planned end, more than 7 days late.
LateAndRed ==
    /\ ~ forecast.projectedCompletionDate.null
    /\ forecast.projectedCompletionDate.time > project.plannedEndDate
    /\ forecast.daysVariance > 7
    /\ forecast.scheduleHealth = "red"

\* C20 as stated, for any list of the scenario: completion projected after
\* the planned end, a daysVariance above 7 and red health.
C20_BehindAnyList ==
    (Forecasted /\ Behind) => LateAndRed

\* C20: in the scenario, a list of at least two entries whose last 7 in
\* date order installed modules gives a completion projected after the
\* planned end, a daysVariance of at least 16 and red health; a single
\* entry projects completion 9 days after today, 7 days late and yellow at
\* midnight of day 8, 8 days late and red later that day; a list whose last
\* 7 entries installed no module gives no projection, a daysVariance of 0
\* and green health.
C20_BehindScenario ==
    (Forecasted /\ Behind) =>
        /\ (Len(productionEntries) >= 2 /\ WindowModules > 0) =>
              LateAndRed /\ forecast.daysVariance >= 16
        /\ Len(productionEntries) = 1 =>
              /\ forecast.projectedCompletionDate
                    = DateAt(today + 9 * SecondsPerDay)
              /\ IF today % SecondsPerDay = 0
                 THEN /\ forecast.daysVariance = 7
                      /\ forecast.scheduleHealth = "yellow"
                 ELSE /\ forecast.daysVariance = 8
                      /\ forecast.scheduleHealth = "red"
        /\ WindowModules = 0 =>
              /\ forecast.projectedCompletionDate = Null
              /\ forecast.daysVariance = 0
              /\ forecast.scheduleHealth = "green"

\* The scenario on two entries of 50 modules: 900 modules at 50 a day take
\* 18 days from day 8, 16 days past the planned end.
C20_Witness ==
    /\ Forecasted
    /\ Behind
    /\ Len(productionEntries) = 2
    /\ productionEntries[1].modules = 50
    /\ today = UTC(2024, 1, 9, 0)
    /\ forecast.projectedCompletionDate = DateAt(UTC(2024, 1, 27, 0))
    /\ forecast.daysVariance = 16
    /\ forecast.scheduleHealth = "red"

-----------------------------------------------------------------------------
(* C21 *)

\* A number that is neither NaN nor an infinity.
Finite(x) == x.den > 0

\* C21: totalDays is at least 1 for every project, and exactly 1 when the
\* planned end is not after the planned start; the planned curve then runs
\* from 0 to 100 in one step, and every value of a planned curve is finite.
C21_TotalDaysAtLeastOne ==
    Forecasted =>
        /\ totalDays(project) >= 1
        /\ Len(forecast.plannedProgress) = totalDays(project) + 1
        /\ \A k \in DOMAIN forecast.plannedProgress :
              Finite(forecast.plannedProgress[k])
        /\ project.plannedEndDate <= project.plannedStartDate =>
              /\ totalDays(project) = 1
              /\ Len(forecast.plannedProgress) = 2
              /\ RatIs(forecast.plannedProgress[1], 0, 1)
              /\ RatIs(forecast.plannedProgress[2], 100, 1)

\* A forecast of a plan that ends at the instant it starts: a span of 0
\* days, planned as one day.
C21_Witness ==
    /\ Forecasted
    /\ project.plannedEndDate = project.plannedStartDate
    /\ forecast.plannedProgress = <<Rat(0, 1), Rat(100, 1)>>

-----------------------------------------------------------------------------
(* C22 *)

\* Entry k of the input comes after entry j in ascending date order with
\* ties kept in input order.
ComesAfter(k, j) ==
    \/ productionEntries[k].date > productionEntries[j].date
    \/ /\ productionEntries[k].date = productionEntries[j].date
       /\ k > j

\* The input positions of the last 7 entries in that order.
InRecentWindow ==
    {j \in DOMAIN productionEntries :
        Cardinality({k \in DOMAIN productionEntries : ComesAfter(k, j)})
            < RecentWindow}

\* The sum of a category over the entries at those positions.
RecentSum(category) ==
    LET f[k \in 0..Len(productionEntries)] ==
            IF k = 0 THEN 0
            ELSE f[k - 1] + (IF k \in InRecentWindow
                             THEN productionEntries[k][category]
                             ELSE 0)
    IN  f[Len(productionEntries)]

\* C22: the entries are sorted ascending by date with ties kept in input
\* order, so averageDailyProduction is taken over the 7 entries that are
\* last by date and, among entries of the date at the window's boundary,
\* last in the input list.
C22_StableSort ==
    (Forecasted /\ Len(productionEntries) > 0) =>
        LET avg == forecast.averageDailyProduction
            n   == Cardinality(InRecentWindow)
        IN  /\ n = Min(Len(productionEntries), RecentWindow)
            /\ RatIs(avg.piles, RecentSum("piles"), n)
            /\ RatIs(avg.racking, RecentSum("rackingTables"), n)
            /\ RatIs(avg.modules, RecentSum("modules"), n)

\* A forecast over more than 7 entries of one date, the first of the input
\* the only one with modules: it is the one left out, so the average module
\* production is 0.
C22_Witness ==
    /\ Forecasted
    /\ Len(productionEntries) > RecentWindow
    /\ \A k \in DOMAIN productionEntries :
          productionEntries[k].date = productionEntries[1].date
    /\ productionEntries[1].modules > 0
    /\ \A k \in 2..Len(productionEntries) : productionEntries[k].modules = 0
    /\ RatIs(forecast.averageDailyProduction.modules, 0, 1)

-----------------------------------------------------------------------------
(* C23 *)

\* Either copy of the dashboard's classifier has returned.
HealthReturned ==
    returned.op \in {"getScheduleHealth", "getScheduleHealthPart004"}

\* Module work remains and there is no rate to project it with: none of the
\* last 7 entries installed modules, or there is no entry and no planned
\* module rate.
Stalled ==
    /\ InstalledModules < project.totalModules
    /\ IF Len(productionEntries) = 0
       THEN project.plannedModulesPerDay = 0
       ELSE RecentSum("modules") = 0

\* In a plan that ends after it starts, the weighted progress is more than
\* 6 points below the share of the plan's days that have elapsed (the
\* dashboard rounds each percentage and their weighted sum to integers,
\* which moves the result by less than one point).
Lagging ==
    /\ project.plannedEndDate > project.plannedStartDate
    /\ LET elapsed == Min(PlanDaysElapsed, PlanTotalDays)
       IN  elapsed * 100 * ExactOverall[2] - ExactOverall[1] * PlanTotalDays
               > 6 * PlanTotalDays * ExactOverall[2]

\* C23: the two classifiers are not equivalent: on a stalled and lagging
\* project the day-variance classifier of calculateForecast returns green
\* and the percentage-variance classifier getScheduleHealth returns red.
C23_ClassifiersDisagree ==
    (HealthReturned /\ Stalled /\ Lagging) =>
        /\ returned.value = "red"
        /\ calculateForecast(project, productionEntries, today).scheduleHealth
              = "green"

\* Half of a two-day plan has elapsed and only the civil crew has reported:
\* 200 percent of the piles and 50 percent of the racking are 43 points
\* overall, 7 below the expected 50, so the dashboard says red, while the
\* forecast, without a module rate, says green.
C23_Witness ==
    /\ returned.op = "getScheduleHealth"
    /\ Stalled
    /\ Lagging
    /\ PlanTotalDays = 2
    /\ PlanDaysElapsed = 1
    /\ InstalledPiles = 2
    /\ InstalledRacking = 1
    /\ project.totalRackingTables = 2
    /\ returned.value = "red"
    /\ calculateForecast(project, productionEntries, today).scheduleHealth
          = "green"

-----------------------------------------------------------------------------
(* C24 *)

\* The positions of the rows of a table of ProductionEntry rows that carry
\* localId l and deviceId d.
RowsIn(table, l, d) ==
    {k \in DOMAIN table : table[k].localId = l /\ table[k].deviceId = d}

RowsOfPair(l, d) == RowsIn(productionEntryTable, l, d)

StoredAs(field) == IF field = Absent THEN SqlNull ELSE field

\* Request r is about to learn whether the production item it holds is in
\* the table, and a row of the item's (localId, deviceId) is there.
SubmitsExisting(r) ==
    /\ requests[r].pc = "find"
    /\ requests'[r] # requests[r]
    /\ RowsOfPair(StoredAs(requests[r].item.payload.localId),
                  StoredAs(requests[r].item.payload.deviceId)) # {}

\* The answer the item gets is success with duplicate = true and the id of
\* a row that is in the table; when the item names both its localId and
\* its deviceId, of the row that carries them.
AnsweredAsDuplicate(r) ==
    LET payload == requests[r].item.payload
        answer == requests'[r].results[Len(requests'[r].results)]
        named == payload.localId # Absent /\ payload.deviceId # Absent
    IN  /\ Len(requests'[r].results) = Len(requests[r].results) + 1
        /\ answer.localId = requests[r].item.localId
        /\ answer.success = TRUE
        /\ DOMAIN answer = {"localId", "success", "duplicate", "id"}
        /\ answer.duplicate = TRUE
        /\ \E k \in DOMAIN productionEntryTable :
              /\ productionEntryTable[k].id = answer.id
              /\ named => k \in RowsOfPair(payload.localId, payload.deviceId)

\* The values of the columns localId and deviceId.
StoredLocalIds == LocalIds \cup {SqlNull}

StoredDeviceIds == (DeviceIds \ {Absent}) \cup {SqlNull}

\* C24: with requests handled one after another, a production item whose
\* (localId, deviceId) is already in ProductionEntry creates no row and is
\* answered with success, duplicate = true and the id of the existing
\* entry; and no step of a sync request gives a (localId, deviceId) a
\* second row, so that sync requests keep one row at most per pair (other
\* handlers create and delete rows between the requests).
C24_SequentialIdempotence ==
    [][/\ \A r \in Requests :
             SubmitsExisting(r) =>
                 /\ productionEntryTable' = productionEntryTable
                 /\ AnsweredAsDuplicate(r)
       /\ requests' # requests =>
             \A l \in StoredLocalIds, d \in StoredDeviceIds :
                 \/ Cardinality(RowsIn(productionEntryTable', l, d)) <= 1
                 \/ RowsIn(productionEntryTable', l, d)
                        = RowsIn(productionEntryTable, l, d)]_vars

\* Both requests were answered: the first created entry 1 for
\* (local_1, device_1), the second sent the same item again and was told
\* it is a duplicate of entry 1, the only row.
C24_Witness ==
    /\ \A r \in Requests : requests[r].pc = "responded"
    /\ requests["request_1"].results =
           <<[localId |-> "local_1", success |-> TRUE, id |-> 1]>>
    /\ requests["request_2"].results =
           <<[localId |-> "local_1", success |-> TRUE, duplicate |-> TRUE, id |-> 1]>>
    /\ Len(productionEntryTable) = 1
    /\ productionEntryTable[1].localId = "local_1"
    /\ productionEntryTable[1].deviceId = "device_1"

-----------------------------------------------------------------------------
(* C29 *)

\* The positions of the rows of ProductionEntry that sync request r
\* created: a result of r, success without duplicate, carries their id.
CreatedBy(r) ==
    {k \in DOMAIN productionEntryTable :
        \E i \in DOMAIN requests[r].results :
            LET answer == requests[r].results[i]
            IN  /\ DOMAIN answer = {"localId", "success", "id"}
                /\ answer.id = productionEntryTable[k].id}

\* C29: with sync requests handled concurrently, two requests never both
\* create a row of the same (localId, deviceId): the rows of ProductionEntry
\* that two sync requests created differ in localId or in deviceId.
C29_NoDoubleCreate ==
    \A r, q \in Requests :
        r # q =>
            \A j \in CreatedBy(r), k \in CreatedBy(q) :
                \/ productionEntryTable[j].localId # productionEntryTable[k].localId
                \/ productionEntryTable[j].deviceId # productionEntryTable[k].deviceId

-----
(* C30 *)

\* A call of addToOfflineQueue or of removeFromOfflineQueue.
QueueCall ==
    \/ \E item \in OfflineQueueItems : AddToOfflineQueue(item)
    \/ \E id \in QueueIds : RemoveFromOfflineQueue(id)

\* C30: addToOfflineQueue and removeFromOfflineQueue leave pendingSyncCount
\* not negative and equal to the length of offlineQueue when it was so
\* before the call, as it is in the initial state: after any sequence of
\* the two, pendingSyncCount is the length of offlineQueue.
C30_CountIsQueueLength ==
    [][(QueueCall /\ pendingSyncCount = Len(offlineQueue)) =>
           /\ pendingSyncCount' >= 0
           /\ pendingSyncCount' = Len(offlineQueue')]_vars

-----------------------------------------------------------------------------
(* C25 *)

\* C25: a forecast whose projectedCompletionDate is null has scheduleHealth
\* green (and daysVariance 0), however far today lies past the planned end;
\* it is the forecast of a project with modules still to install and an
\* average daily module production of 0.
C25_NoDateIsGreen ==
    (Forecasted /\ forecast.projectedCompletionDate = Null) =>
        /\ forecast.scheduleHealth = "green"
        /\ forecast.scheduleHealth \notin {"yellow", "red"}
        /\ forecast.daysVariance = 0
        /\ InstalledModules < project.totalModules
        /\ RatIs(forecast.averageDailyProduction.modules, 0, 1)

\* No date is projected although today is more than a day past the planned
\* end and reports exist.
C25_Witness ==
    /\ Forecasted
    /\ forecast.projectedCompletionDate = Null
    /\ today > project.plannedEndDate + SecondsPerDay
    /\ project.plannedEndDate > project.plannedStartDate
    /\ Len(productionEntries) > 0
    /\ forecast.scheduleHealth = "green"

-----------------------------------------------------------------------------
(* C26 *)

\* min(100, (modules of all entries) / totalModules * 100), as the pair
\* <<numerator, denominator>>.
InstalledShare ==
    IF InstalledModules >= project.totalModules
    THEN <<100, 1>>
    ELSE <<InstalledModules * 100, project.totalModules>>

\* Every entry is dated on a calendar day of the chart: from the planned
\* start's to min(daysElapsed, totalDays) days after it.
AllOnTheChart ==
    \A k \in DOMAIN productionEntries :
        /\ DayNumber(project.plannedStartDate) <= DayNumber(productionEntries[k].date)
        /\ DayNumber(productionEntries[k].date)
               <= DayNumber(project.plannedStartDate) + LastOffset

CurveEnd == forecast.actualProgress[Len(forecast.actualProgress)]

\* C26: with totalModules > 0 (and no negative count), the last element of
\* actualProgress is at most min(100, modules of all entries / totalModules
\* * 100), and equal to it when every entry is dated on a day of the chart.
C26_CurveEndsAtMostAtShare ==
    (Forecasted /\ project.totalModules > 0 /\ Len(forecast.actualProgress) > 0) =>
        /\ CurveEnd.den > 0
        /\ CurveEnd.num * InstalledShare[2] <= InstalledShare[1] * CurveEnd.den
        /\ AllOnTheChart => RatIs(CurveEnd, InstalledShare[1], InstalledShare[2])

\* The curve ends below 100 although no module remains: modules were
\* reported on days that are not on the chart.
C26_Witness ==
    /\ Forecasted
    /\ project.totalModules > 0
    /\ Len(forecast.actualProgress) > 0
    /\ forecast.remainingWork.modules = 0
    /\ RatLeq(CurveEnd, Rat(99, 1))
    /\ ~AllOnTheChart

-----------------------------------------------------------------------------
(* C27 *)

\* C27: the actual curve never falls: each element of actualProgress is at
\* most the element of the next day offset.
C27_CurveNeverFalls ==
    Forecasted =>
        \A k \in DOMAIN forecast.actualProgress :
            k + 1 \in DOMAIN forecast.actualProgress =>
                /\ forecast.actualProgress[k].den > 0
                /\ forecast.actualProgress[k + 1].den > 0
                /\ forecast.actualProgress[k].num * forecast.actualProgress[k + 1].den
                       <= forecast.actualProgress[k + 1].num * forecast.actualProgress[k].den

\* A curve of three days or more that rises on one day and is level and
\* above 0 on the next, a day without report.
C27_Witness ==
    /\ Forecasted
    /\ Len(forecast.actualProgress) >= 3
    /\ \E k \in 1..(Len(forecast.actualProgress) - 2) :
          /\ forecast.actualProgress[k] # forecast.actualProgress[k + 1]
          /\ forecast.actualProgress[k + 1] = forecast.actualProgress[k + 2]
          /\ forecast.actualProgress[k + 1].num > 0

-----------------------------------------------------------------------------
(* C28 *)

\* productionEntries with the entries at positions j and k exchanged.  The
\* exchanges of two positions generate every permutation, and every input
\* family holds a list together with all its permutations.
Exchanged(j, k) ==
    [n \in 1..Len(productionEntries) |->
        IF n = j THEN productionEntries[k]
        ELSE IF n = k THEN productionEntries[j]
        ELSE productionEntries[n]]

\* productionEntries in the opposite order.
Reversed ==
    [n \in 1..Len(productionEntries) |->
        productionEntries[Len(productionEntries) + 1 - n]]

SameCurvesAndRemainder(entries) ==
    LET other == calculateForecast(project, entries, today)
    IN  /\ other.plannedProgress = forecast.plannedProgress
        /\ other.actualProgress = forecast.actualProgress
        /\ other.dates = forecast.dates
        /\ other.remainingWork = forecast.remainingWork

\* C28: for the same project and today, calculateForecast returns the same
\* plannedProgress, actualProgress, dates and remainingWork for the entry
\* list in any other order.
C28_OrderOfEntriesIrrelevant ==
    Forecasted =>
        /\ SameCurvesAndRemainder(Reversed)
        /\ \A j, k \in DOMAIN productionEntries : SameCurvesAndRemainder(Exchanged(j, k))

\* Two reports of the same calendar day with different module counts, the
\* list being a different one in the opposite order, and the curve shows
\* both.
C28_Witness ==
    /\ Forecasted
    /\ Len(productionEntries) = 2
    /\ DayNumber(productionEntries[1].date) = DayNumber(productionEntries[2].date)
    /\ productionEntries[1].modules = 1
    /\ productionEntries[2].modules = 2
    /\ Reversed # productionEntries
    /\ Len(forecast.actualProgress) > 0
    /\ RatIs(CurveEnd, 3 * 100, project.totalModules)
    /\ SameCurvesAndRemainder(Reversed)

============================================================================
